---- MODULE Spec2Model ----
(***************************************************************************)
(* A model of the CCB ask daemon: the protocol marker library, the Codex   *)
(* communicator and adapter (one Send cycle), the provider file lock and   *)
(* the daemon server with its per-session worker pool.                     *)
(*                                                                         *)
(* Texts are sequences of lines; a line is a record [kind, s].  The empty  *)
(* string is the empty sequence, so strings.Split / strings.Join are       *)
(* splitLines / JoinLines below.  Times are in microseconds.               *)
(***************************************************************************)
EXTENDS Integers, Sequences, FiniteSets, TLC

VARIABLES
    now,          \* wall clock, microseconds
    sessFiles,    \* <workDir>/.ccb_config/.codex-session and the legacy file
    backend,      \* the daemon's terminal backend: "nil" or "tmux"
    paneAlive,    \* set of pane ids the backend reports as existing
    logPath,      \* what findCodexLogPath returns: "" or "output.log"
    log,          \* lines of the Codex output.log
    paneInput,    \* texts delivered to panes by Backend.SendKeys, in order
    req,          \* the ProviderRequest handed to Send
    send,         \* the running Send call: position, locals, result
    lastReply,    \* CodexAdapter.lastReply
    probedDead,   \* history: a liveness probe of WaitForReply saw the pane dead
    fs,           \* lock directory: path -> inode, inode contents and flocks
    locks,        \* ProviderLock objects (fd, acquired, position)
    procAlive,    \* which processes (by PID) are running
    conn,         \* connections accepted by the daemon, by arrival number,
                  \* each with the QueuedTask its request becomes
    lastActive,   \* Server.lastActive
    workers,      \* WorkerPool.workers: session key -> worker id (0 = none)
    wk,           \* sessionWorker goroutines and their task channels
    srv,          \* server lifecycle: shutdown channel, listener, and the
                  \* runtime panic that ended the process, if any
    daemonCfg,    \* ServerConfig: IdleTimeout, ParentPID, and the build's GOOS
    parentAlive,  \* the process with the parent PID exists
    boot,         \* Start's position and the two monitor goroutines
    stateDoc,     \* contents of the daemon state file, Absent when none
    lastRead,     \* what the client's ReadState returned last
    regData,      \* PaneRegistry.data: the keys that have an entry
    regMu,        \* PaneRegistry.mu: the goroutine that holds it, 0 if none
    regFs,        \* the registry file and its .tmp neighbour
    regW,         \* the goroutines that call Upsert
    regProc,      \* the process that owns the registry: running or crashed
    rsIn,         \* what Resolve finds: environment, registry, backend, files
    rsOut,        \* what Resolve returned
    launched,     \* the pane id registerSession was called with, "" if none
    ensured,      \* what EnsurePane returned last
    tailed,       \* the characters of the file a LogReader follows
    rd,           \* the LogReader: offset, carry, and all lines it returned
    rv,           \* a ReverseReader call: file, ChunkSize, n and what it returned
    pt,           \* a call of the marker library: its text, request id and result
    issued,       \* the request ids MakeReqID returned, with the calling process
    senders,      \* the workers that run Send on one adapter
    pend,         \* the Pend calls made and what the last one returned
    sendLog,      \* the results Send has returned, in order of return
    wall,         \* the wall clock of the entry model, Unix seconds
    er,           \* a PaneRegistry: whether it was made, and its data
    erFile,       \* the registry file of the entry model
    erRet,        \* the last call on the registry: its name, return value and number
    prs,          \* the PaneRegistry of each launcher process: position and data
    dm,           \* the daemon processes started against one state file: position of each
    sf,           \* the PID in the shared state file, 0 when there is no file
    ps,           \* the SendKeys calls of the daemon's goroutines: position of each
    tmpf,         \* the daemon's paste file ccb-tmux-<pid>.txt: the text in it, 0 when absent
    bufs,         \* the paste buffers of the tmux server, newest last
    pasted        \* the texts pasted into each pane, in order

sendVars == <<sessFiles, backend, paneAlive, logPath, log, paneInput, req, send,
              lastReply, probedDead>>
lockVars == <<fs, locks, procAlive>>
poolVars == <<conn, lastActive, workers, wk, srv>>
readerVars == <<tailed, rd>>
launchVars == <<launched, ensured>>
resolveVars == <<rsIn, rsOut>>
regVars == <<regData, regMu, regFs, regW, regProc>>
reverseVars == <<rv>>
protoVars == <<pt>>
reqidVars == <<issued>>
pendVars == <<senders, pend, sendLog>>
entVars == <<wall, er, erFile, erRet>>
multiVars == <<prs>>
twinVars == <<dm, sf>>
pasteVars == <<ps, tmpf, bufs, pasted>>
lifeVars == <<daemonCfg, parentAlive, boot, stateDoc, lastRead>>
vars == <<now, sendVars, lockVars, poolVars, lifeVars,
         regVars,
         resolveVars,
         launchVars,
         readerVars,
         reverseVars,
         protoVars,
         reqidVars,
         pendVars,
         entVars,
         multiVars,
         twinVars,
         pasteVars>>

(***************************************************************************)
(* Bounds of the model.                                                    *)
(***************************************************************************)
MaxLog == 3
NumProcs == 3     \* processes that use one lock file
MaxInodes == 3    \* lock files ever created at the lock path
MaxConns == 3     \* tasks handed to the worker pool
TaskChCap == 2    \* slots of a worker's task channel (16 in registry.go)
MaxServerConns == 2   \* connections the daemon accepts
MaxTicks == 1         \* clock ticks of the daemon model
MaxIdleTicks == 3     \* ticks of the idle monitor
NumUpserts == 3       \* goroutines that call Upsert on one registry
MaxFile == 4          \* characters appended to the file a LogReader follows
MaxRevFile == 5       \* bytes of the file ReadLastLines reads
MaxChunk == 3         \* largest ChunkSize of the ReverseReader
MaxWanted == 2        \* largest n passed to ReadLastLines
MaxPieces == 3        \* pieces that make up a text of the marker library
MaxReqCalls == 3      \* calls of MakeReqID
MaxReqClock == 4      \* half milliseconds the clock of MakeReqID advances
MaxSends == 3         \* Send calls on one adapter
MaxPends == 2         \* Pend calls on one adapter
MaxEntOps == 3        \* calls made on the pane registry of the entry model
MaxDays == 1          \* days that pass in the entry model
MaxEchoPieces == 2   \* pieces a message of the echo model is made of
NumLaunchers == 3     \* launcher processes that share one registry file
NumDaemons == 3       \* daemon processes clients may start against one state file
NumPasters == 3       \* goroutines of one daemon that call SendKeys at once

(***************************************************************************)
(* Lines and texts.                                                        *)
(***************************************************************************)
ReqIDs == {"r1", "r2"}

AnchorLine(r) == [kind |-> "anchor", s |-> r]   \* "CCB_REQ_ID: <r>"
DoneLine(r) == [kind |-> "done", s |-> r]       \* "CCB_DONE: <r>"
EmptyLine == [kind |-> "empty", s |-> ""]       \* ""
SpaceLine == [kind |-> "space", s |-> " "]      \* whitespace only
TagLine == [kind |-> "tag", s |-> "CODEX_DONE"] \* a generic *_DONE tag
TextLine(t) == [kind |-> "text", s |-> t]       \* any other line

\* What the provider and the terminal can append to the log.
LogLines ==
    {AnchorLine(r) : r \in ReqIDs} \cup {DoneLine(r) : r \in ReqIDs}
        \cup {EmptyLine, SpaceLine, TagLine, TextLine("42")}

Last(seq) == seq[Len(seq)]
Front(seq) == SubSeq(seq, 1, Len(seq) - 1)

splitLines(text) == text

JoinLines(lines) == IF lines = <<EmptyLine>> THEN <<>> ELSE lines

isGenericDoneTag(line) == line.kind = "tag"

isTrailingNoiseLine(line) ==
    \/ line.kind \in {"empty", "space"}
    \/ isGenericDoneTag(line)

DoneLineRE(line, reqID) == line.kind = "done" /\ line.s = reqID

RECURSIVE IsDoneText(_, _)
IsDoneText(text, reqID) ==
    LET lines == splitLines(text) IN
    IF lines = <<>> THEN FALSE
    ELSE IF isTrailingNoiseLine(Last(lines)) THEN IsDoneText(Front(lines), reqID)
    ELSE DoneLineRE(Last(lines), reqID)

RECURSIVE StripNoise(_)
StripNoise(lines) ==
    IF lines # <<>> /\ isTrailingNoiseLine(Last(lines))
    THEN StripNoise(Front(lines))
    ELSE lines

\* strings.TrimRight(s, "\n\r\t ") of a joined text: trailing lines that
\* are empty or blank go, as does the newline before them.
RECURSIVE TrimRightText(_)
TrimRightText(text) ==
    IF text # <<>> /\ Last(text).kind \in {"empty", "space"}
    THEN TrimRightText(Front(text))
    ELSE text

StripDoneText(text, reqID) ==
    LET l0 == splitLines(text)
        l1 == StripNoise(l0)
        l2 == IF l1 # <<>> /\ DoneLineRE(Last(l1), reqID) THEN Front(l1) ELSE l1
        l3 == StripNoise(l2)
    IN  IF l0 = <<>> THEN <<>> ELSE TrimRightText(JoinLines(l3))

WrapCodexPrompt(message, reqID) ==
    <<AnchorLine(reqID), EmptyLine>> \o TrimRightText(message)
        \o <<EmptyLine, TextLine("IMPORTANT:"), TextLine("- Reply normally."),
             TextLine("- Reply normally, in English."),
             TextLine("- End your reply with this exact final line (verbatim, on its own line):"),
             DoneLine(reqID), EmptyLine>>

\* MakeReqID formats the current time and the PID; the request of the
\* model that carries no req_id is the one that gets "r2".
MakeReqID == "r2"

(***************************************************************************)
(* Session file lookup (config.FindProjectSessionFile, ReadSessionFile,    *)
(* session.LoadCodexSession).                                              *)
(***************************************************************************)
Absent == "<absent>"

\* strings.TrimSpace on the file contents the model uses.
TrimSpace(content) ==
    CASE content = "%10\n" -> "%10"
      [] content = "\n" -> ""
      [] OTHER -> content

FindProjectSessionFile(files) ==
    IF files.cfg # Absent THEN "cfg"
    ELSE IF files.legacy # Absent THEN "legacy"
    ELSE ""

ReadSessionFile(files, path) ==
    IF path = "cfg" THEN TrimSpace(files.cfg) ELSE TrimSpace(files.legacy)

ComputeCCBProjectID(workDir) == <<"sha256", workDir>>

NoSession == [found |-> FALSE, ProjectID |-> <<>>, PaneID |-> "", LogPath |-> ""]

\* A loader that takes an empty session file for a session.
LoadCodexSessionBlank(files, workDir, foundLog) ==
    LET sessionFile == FindProjectSessionFile(files) IN
    IF sessionFile = "" THEN NoSession
    ELSE [found |-> TRUE, ProjectID |-> ComputeCCBProjectID(workDir),
          PaneID |-> ReadSessionFile(files, sessionFile), LogPath |-> foundLog]

LoadCodexSession(files, workDir, foundLog) ==
    LET sessionFile == FindProjectSessionFile(files) IN
    IF sessionFile = "" THEN NoSession
    ELSE LET content == ReadSessionFile(files, sessionFile) IN
         IF content = "" THEN NoSession
         ELSE [found |-> TRUE, ProjectID |-> ComputeCCBProjectID(workDir),
               PaneID |-> content, LogPath |-> foundLog]

(***************************************************************************)
(* Reverse tailer and the Codex reply parser.                              *)
(***************************************************************************)
TailLines == 500

RECURSIVE StripTrailingEmpty(_)
StripTrailingEmpty(lines) ==
    IF lines # <<>> /\ Last(lines) = EmptyLine
    THEN StripTrailingEmpty(Front(lines))
    ELSE lines

\* The file is a sequence of newline-terminated lines.
ReadLastLines(file, n) ==
    LET collected == StripTrailingEmpty(file) IN
    IF Len(collected) > n
    THEN SubSeq(collected, Len(collected) - n + 1, Len(collected))
    ELSE collected

\* strings.Contains(line, "CCB_REQ_ID: " + reqID)
ContainsAnchor(line, reqID) == line.kind = "anchor" /\ line.s = reqID

RECURSIVE LastAnchorIdx(_, _, _)
LastAnchorIdx(lines, reqID, i) ==
    IF i = 0 THEN 0
    ELSE IF ContainsAnchor(lines[i], reqID) THEN i
    ELSE LastAnchorIdx(lines, reqID, i - 1)

ReadReply(path, file, reqID) ==
    IF path = "" THEN <<>>
    ELSE LET lines == ReadLastLines(file, TailLines)
             anchorIdx == LastAnchorIdx(lines, reqID, Len(lines))
         IN  IF lines = <<>> \/ anchorIdx = 0 THEN <<>>
             ELSE JoinLines(SubSeq(lines, anchorIdx + 1, Len(lines)))

CaptureState(path, file, reqID) ==
    LET reply == ReadReply(path, file, reqID) IN
    [AnchorSeen |-> path # "" /\ reply # <<>>,
     AnchorMs |-> 0,
     DoneSeen |-> path # "" /\ reply # <<>> /\ IsDoneText(reply, reqID),
     FallbackScan |-> FALSE]

(***************************************************************************)
(* Polling.                                                                *)
(***************************************************************************)
Second == 1000 * 1000
InitialInterval == 20 * 1000
MaxInterval == 500 * 1000
ForceReadEvery == 2 * Second
DefaultTimeout == 120 * Second

\* time.Duration(float64(current) * 1.5), capped
adaptiveSleep(current) ==
    LET next == (current * 3) \div 2 IN
    IF next > MaxInterval THEN MaxInterval ELSE next

\* A liveness check that only looks for a backend.
IsAliveAnyPane(paneID) == backend # "nil"

IsAlive(paneID) == backend # "nil" /\ paneID \in paneAlive

ErrTimeout(reqID) == <<"timeout waiting for reply from ", "codex", " (req_id: ", reqID, ")">>
ErrPaneDead(paneID) == <<"pane ", paneID, " for ", "codex", " is no longer alive">>
ErrNoBackend == <<"no terminal backend available for ", "codex">>

(***************************************************************************)
(* CodexAdapter.Send.                                                      *)
(***************************************************************************)
ZeroResult ==
    [ExitCode |-> 0, Reply |-> <<>>, ReqID |-> "", SessionKey |-> <<>>,
     LogPath |-> "", AnchorSeen |-> FALSE, DoneSeen |-> FALSE,
     FallbackScan |-> FALSE, AnchorMs |-> 0, DoneMs |-> 0, Error |-> <<>>]

IdleSend ==
    [pc |-> "idle", reqID |-> "", paneID |-> "", logPath |-> "", sessionKey |-> <<>>,
     startTime |-> 0, deadline |-> 0, interval |-> 0, lastForceRead |-> 0,
     result |-> ZeroResult]

Finished(s, result) == [s EXCEPT !.pc = "done", !.result = result]

\* Lines 31-60: load the session, choose the request id, wrap and send the
\* prompt, derive the deadline and enter WaitForReply.
SendStart ==
    /\ send.pc = "idle"
    /\ LET sess == LoadCodexSession(sessFiles, req.WorkDir, logPath)
           reqID == IF req.ReqID = "" THEN MakeReqID ELSE req.ReqID
           wrapped == WrapCodexPrompt(req.Message, reqID)
           timeout == IF req.TimeoutS * Second = 0 THEN DefaultTimeout
                      ELSE req.TimeoutS * Second
           deadline == IF now + timeout < req.CtxDeadline THEN now + timeout
                       ELSE req.CtxDeadline
       IN
       IF ~sess.found
       THEN /\ send' = Finished(send, [ZeroResult EXCEPT !.ExitCode = 1,
                            !.ReqID = req.ReqID,
                            !.Error = <<"codex session not found">>])
            /\ UNCHANGED paneInput
       ELSE IF backend = "nil"
       THEN /\ send' = Finished(send, [ZeroResult EXCEPT !.ExitCode = 1,
                            !.ReqID = reqID,
                            !.Error = <<"send failed: ">> \o ErrNoBackend])
            /\ UNCHANGED paneInput
       ELSE IF sess.PaneID \notin paneAlive
       THEN \* Backend.SendKeys fails on a pane that does not exist
            /\ send' = Finished(send, [ZeroResult EXCEPT !.ExitCode = 1,
                            !.ReqID = reqID,
                            !.Error = <<"send failed: ", "SendKeys">>])
            /\ UNCHANGED paneInput
       ELSE /\ paneInput' = Append(paneInput,
                                   [pane |-> sess.PaneID, text |-> wrapped])
            /\ send' = [send EXCEPT !.pc = "wait", !.reqID = reqID,
                          !.paneID = sess.PaneID, !.logPath = sess.LogPath,
                          !.sessionKey = sess.ProjectID,
                          !.startTime = now, !.deadline = deadline,
                          !.interval = InitialInterval,
                          !.lastForceRead = now]
    /\ UNCHANGED <<now, sessFiles, backend, paneAlive, logPath, log, req,
                   lastReply, probedDead, lockVars, poolVars, lifeVars,
                   regVars, resolveVars, launchVars, readerVars, reverseVars,
                   protoVars, reqidVars, pendVars, entVars, multiVars,
                   twinVars, pasteVars>>

\* A failure result that also copies the captured DoneSeen.
FailedResultWithDone(s, err) ==
    LET state == CaptureState(s.logPath, log, s.reqID) IN
    [ZeroResult EXCEPT !.ReqID = s.reqID, !.SessionKey = s.sessionKey,
                       !.LogPath = s.logPath, !.ExitCode = 2, !.Error = err,
                       !.AnchorSeen = state.AnchorSeen,
                       !.DoneSeen = state.DoneSeen]

\* Lines 62-79 of Send: the result built when WaitForReply returned err.
FailedResult(s, err) ==
    LET state == CaptureState(s.logPath, log, s.reqID) IN
    [ZeroResult EXCEPT !.ReqID = s.reqID, !.SessionKey = s.sessionKey,
                       !.LogPath = s.logPath, !.ExitCode = 2, !.Error = err,
                       !.AnchorSeen = state.AnchorSeen,
                       !.AnchorMs = state.AnchorMs,
                       !.FallbackScan = state.FallbackScan]

\* Lines 81-87 of Send: the result built from WaitForReply's reply.
SuccessResult(s, reply) ==
    [ZeroResult EXCEPT !.ReqID = s.reqID, !.SessionKey = s.sessionKey,
                       !.LogPath = s.logPath, !.ExitCode = 0, !.Reply = reply,
                       !.DoneSeen = TRUE,
                       !.DoneMs = (now - s.startTime) \div 1000]

\* The liveness probe of WaitForReply is due.
ProbeDue(s) == s.paneID # "" /\ now - s.lastForceRead > ForceReadEvery

\* One turn of the WaitForReply loop, up to and including its sleep, and,
\* when the loop returns, the rest of Send.
WaitForReply ==
    /\ send.pc = "wait"
    /\ LET reply == ReadReply(send.logPath, log, send.reqID) IN
       IF now >= send.deadline
       THEN /\ send' = Finished(send, FailedResult(send, ErrTimeout(send.reqID)))
            /\ UNCHANGED <<now, lastReply, probedDead>>
       ELSE IF reply # <<>> /\ IsDoneText(reply, send.reqID)
       THEN /\ send' = Finished(send,
                           SuccessResult(send, StripDoneText(reply, send.reqID)))
            /\ lastReply' = StripDoneText(reply, send.reqID)
            /\ UNCHANGED <<now, probedDead>>
       ELSE IF ProbeDue(send) /\ ~IsAlive(send.paneID)
       THEN /\ send' = Finished([send EXCEPT !.lastForceRead = now],
                                FailedResult(send, ErrPaneDead(send.paneID)))
            /\ probedDead' = TRUE
            /\ UNCHANGED <<now, lastReply>>
       ELSE /\ send' = [send EXCEPT
                            !.lastForceRead = IF ProbeDue(send) THEN now ELSE @,
                            !.interval = adaptiveSleep(@)]
            /\ now' = now + send.interval
            /\ UNCHANGED <<lastReply, probedDead>>
    /\ UNCHANGED <<sessFiles, backend, paneAlive, logPath, log, paneInput, req,
                   lockVars, poolVars, lifeVars, regVars, resolveVars,
                   launchVars, readerVars, reverseVars, protoVars, reqidVars,
                   pendVars, entVars, multiVars, twinVars, pasteVars>>

\* The provider (or the terminal echo) appends a line to the log.
ProviderWrites ==
    /\ send.pc = "wait"
    /\ logPath # ""
    /\ Len(log) < MaxLog
    /\ \E line \in LogLines : log' = Append(log, line)
    /\ UNCHANGED <<now, sessFiles, backend, paneAlive, logPath, paneInput, req,
                   send, lastReply, probedDead, lockVars, poolVars, lifeVars,
                   regVars, resolveVars, launchVars, readerVars, reverseVars,
                   protoVars, reqidVars, pendVars, entVars, multiVars,
                   twinVars, pasteVars>>

\* The pane is closed.
PaneDies ==
    /\ send.pc = "wait"
    /\ send.paneID \in paneAlive
    /\ paneAlive' = paneAlive \ {send.paneID}
    /\ UNCHANGED <<now, sessFiles, backend, logPath, log, paneInput, req,
                   send, lastReply, probedDead, lockVars, poolVars, lifeVars,
                   regVars, resolveVars, launchVars, readerVars, reverseVars,
                   protoVars, reqidVars, pendVars, entVars, multiVars,
                   twinVars, pasteVars>>

(***************************************************************************)
(* The provider lock (package lock, POSIX build).  One lock file path, one *)
(* ProviderLock object per process; the object of process p is locks[p].   *)
(* fs.path is the inode the path names (0: no such file), fs.content the   *)
(* PID stored in each inode (0: empty), fs.flock the object whose open     *)
(* file holds the flock on it (0: unlocked).                               *)
(***************************************************************************)
Procs == 1..NumProcs
Inodes == 1..MaxInodes

IdleLock == [mode |-> "none", pc |-> "idle", fd |-> 0, acquired |-> FALSE,
             staleChecked |-> FALSE, retry |-> FALSE]

\* os.OpenFile(l.LockFile, O_CREATE|O_RDWR): the inode opened and the
\* file system afterwards.
OpenFile(f) ==
    IF f.path # 0 THEN [fd |-> f.path, fs |-> f]
    ELSE [fd |-> f.next, fs |-> [f EXCEPT !.path = f.next, !.next = f.next + 1]]

CanOpen(f) == f.path # 0 \/ f.next \in Inodes

\* closing the descriptor drops the flock it holds
CloseFile(f, p) ==
    [f EXCEPT !.flock = [i \in Inodes |-> IF f.flock[i] = p THEN 0 ELSE f.flock[i]]]

isPIDAlive(pid) == pid > 0 /\ pid \in procAlive

\* TryAcquire / Acquire up to the first tryLockOnce: open the lock file.
LockBegin(p, mode) ==
    /\ p \in procAlive
    /\ locks[p].pc = "idle"
    /\ CanOpen(fs)
    /\ fs' = OpenFile(fs).fs
    /\ locks' = [locks EXCEPT ![p] = [IdleLock EXCEPT !.mode = mode,
                                        !.pc = "lock", !.fd = OpenFile(fs).fd]]
    /\ UNCHANGED <<now, procAlive, sendVars, poolVars, lifeVars, regVars,
                   resolveVars, launchVars, readerVars, reverseVars,
                   protoVars, reqidVars, pendVars, entVars, multiVars,
                   twinVars, pasteVars>>

\* tryLockOnce, first half: flock(LOCK_EX|LOCK_NB) on the open descriptor,
\* and what the caller does when it fails.
LockFlock(p) ==
    /\ p \in procAlive
    /\ locks[p].pc = "lock"
    /\ LET l == locks[p] IN
       IF fs.flock[l.fd] = 0
       THEN /\ fs' = [fs EXCEPT !.flock[l.fd] = p]
            /\ locks' = [locks EXCEPT ![p].pc = "writepid"]
       ELSE IF l.mode = "try"
       THEN IF l.retry
            THEN /\ fs' = fs
                 /\ locks' = [locks EXCEPT ![p] = IdleLock]
            ELSE /\ fs' = fs
                 /\ locks' = [locks EXCEPT ![p].pc = "stale"]
       ELSE IF ~l.retry /\ ~l.staleChecked
            THEN /\ fs' = fs
                 /\ locks' = [locks EXCEPT ![p].pc = "stale",
                                           ![p].staleChecked = TRUE]
            ELSE /\ fs' = fs
                 /\ locks' = [locks EXCEPT ![p].retry = FALSE]
    /\ UNCHANGED <<now, procAlive, sendVars, poolVars, lifeVars, regVars,
                   resolveVars, launchVars, readerVars, reverseVars,
                   protoVars, reqidVars, pendVars, entVars, multiVars,
                   twinVars, pasteVars>>

\* tryLockOnce, second half: write the PID, set acquired, return true.
LockWritePID(p) ==
    /\ p \in procAlive
    /\ locks[p].pc = "writepid"
    /\ fs' = [fs EXCEPT !.content[locks[p].fd] = p]
    /\ locks' = [locks EXCEPT ![p].pc = "held", ![p].acquired = TRUE]
    /\ UNCHANGED <<now, procAlive, sendVars, poolVars, lifeVars, regVars,
                   resolveVars, launchVars, readerVars, reverseVars,
                   protoVars, reqidVars, pendVars, entVars, multiVars,
                   twinVars, pasteVars>>

\* checkStaleLock, first half: read the file at the path and probe the PID.
LockCheckStale(p) ==
    /\ p \in procAlive
    /\ locks[p].pc = "stale"
    /\ LET stale == /\ fs.path # 0
                    /\ fs.content[fs.path] # 0
                    /\ ~isPIDAlive(fs.content[fs.path])
       IN  IF stale
           THEN locks' = [locks EXCEPT ![p].pc = "remove"]
           ELSE IF locks[p].mode = "try"
           THEN locks' = [locks EXCEPT ![p] = IdleLock]
           ELSE locks' = [locks EXCEPT ![p].pc = "lock"]
    /\ UNCHANGED <<now, fs, procAlive, sendVars, poolVars, lifeVars, regVars,
                   resolveVars, launchVars, readerVars, reverseVars,
                   protoVars, reqidVars, pendVars, entVars, multiVars,
                   twinVars, pasteVars>>

\* checkStaleLock, second half, and the caller's reaction: os.Remove of the
\* path, close the descriptor, open the path again.
LockRemoveReopen(p) ==
    /\ p \in procAlive
    /\ locks[p].pc = "remove"
    /\ LET removed == [fs EXCEPT !.path = 0] IN
       /\ CanOpen(removed)
       /\ fs' = OpenFile(removed).fs
       /\ locks' = [locks EXCEPT ![p].pc = "lock", ![p].retry = TRUE,
                                 ![p].fd = OpenFile(removed).fd]
    /\ UNCHANGED <<now, procAlive, sendVars, poolVars, lifeVars, regVars,
                   resolveVars, launchVars, readerVars, reverseVars,
                   protoVars, reqidVars, pendVars, entVars, multiVars,
                   twinVars, pasteVars>>

\* Acquire: the deadline has passed at the head of the loop.
LockTimeout(p) ==
    /\ p \in procAlive
    /\ locks[p].pc = "lock"
    /\ locks[p].mode = "acq"
    /\ ~locks[p].retry
    /\ locks' = [locks EXCEPT ![p] = IdleLock]
    /\ UNCHANGED <<now, fs, procAlive, sendVars, poolVars, lifeVars, regVars,
                   resolveVars, launchVars, readerVars, reverseVars,
                   protoVars, reqidVars, pendVars, entVars, multiVars,
                   twinVars, pasteVars>>

LockRelease(p) ==
    /\ p \in procAlive
    /\ locks[p].pc = "held"
    /\ fs' = CloseFile(fs, p)
    /\ locks' = [locks EXCEPT ![p] = IdleLock]
    /\ UNCHANGED <<now, procAlive, sendVars, poolVars, lifeVars, regVars,
                   resolveVars, launchVars, readerVars, reverseVars,
                   protoVars, reqidVars, pendVars, entVars, multiVars,
                   twinVars, pasteVars>>

\* A process exits or is killed: the kernel closes its descriptors, the
\* lock file and its content stay.
ProcExit(p) ==
    /\ p \in procAlive
    /\ procAlive' = procAlive \ {p}
    /\ fs' = CloseFile(fs, p)
    /\ locks' = [locks EXCEPT ![p] = [IdleLock EXCEPT !.pc = "dead"]]
    /\ UNCHANGED <<now, sendVars, poolVars, lifeVars, regVars, resolveVars,
                   launchVars, readerVars, reverseVars, protoVars, reqidVars,
                   pendVars, entVars, multiVars, twinVars, pasteVars>>

Holders == {p \in Procs : locks[p].pc = "held"}

(***************************************************************************)
(* The worker pool (WorkerPool.Submit, runWorker, Shutdown).  The task of  *)
(* connection c is kept in conn[c]: stage "submit" is a Submit call that   *)
(* has left its critical section, stage "wait" one that has returned.      *)
(***************************************************************************)
Conns == 1..MaxConns
WorkerIds == 1..MaxConns
SessionKeys == {"codex:w1", "codex:w2"}

NoReq == [valid |-> FALSE, token |-> "", method |-> "", provider |-> "",
          workDir |-> "", message |-> "", timeoutS |-> 0]

NoResp == [status |-> "none", error |-> "", exit |-> -1]
ErrorResp(msg) == [status |-> "error", error |-> msg, exit |-> -1]
OkResp == [status |-> "ok", error |-> "", exit |-> -1]
ResultResp(exit, err) == [status |-> "result", error |-> err, exit |-> exit]

\* What a.Send hands back to the handler: the exit code and error of the
\* ProviderResult.
SendOutcomes == {ResultResp(0, ""), ResultResp(2, "timeout waiting for reply")}

FreshConn ==
    [stage |-> "none", req |-> NoReq, resp |-> NoResp, nresp |-> 0,
     key |-> "", deadline |-> 0, w |-> 0, run |-> "none", direct |-> FALSE,
     resultCh |-> NoResp]

NoWorker == [key |-> "", q |-> <<>>, closed |-> FALSE, cur |-> 0, alive |-> FALSE]

Running == srv.proc = "running"

NextWorker == 1 + Cardinality({w \in WorkerIds : wk[w].key # ""})

\* Submit, lines 91-103: under the mutex, look the worker of the key up or
\* create it and start its goroutine.
SubmitLocked(c, cn, key) ==
    LET isNew == workers[key] = 0
        w == IF isNew THEN NextWorker ELSE workers[key]
    IN  /\ conn' = [conn EXCEPT ![c] = [cn EXCEPT !.stage = "submit",
                                           !.key = key, !.w = w]]
        /\ workers' = [workers EXCEPT ![key] = w]
        /\ wk' = IF isNew
                 THEN [wk EXCEPT ![w] = [NoWorker EXCEPT !.key = key,
                                                        !.alive = TRUE]]
                 ELSE wk

\* A caller of the pool submits the task of c under a session key.
Submit(c, key) ==
    /\ Running
    /\ conn[c].stage = "none"
    /\ \A d \in Conns : d < c => conn[d].stage # "none"
    /\ SubmitLocked(c, conn[c], key)
    /\ UNCHANGED <<now, lastActive, srv, sendVars, lockVars, lifeVars, regVars,
                   resolveVars, launchVars, readerVars, reverseVars,
                   protoVars, reqidVars, pendVars, entVars, multiVars,
                   twinVars, pasteVars>>

\* A handler starts: a.Send is called for the task of connection c.
Started(cn, byWorker) == [cn EXCEPT !.run = "running", !.direct = ~byWorker]

\* A channel that takes one task more than its capacity.
ChanFullLate(q) == Len(q) > TaskChCap

\* The send case of Submit's select is not ready: the buffer of the task
\* channel is full.
ChanFull(q) == Len(q) >= TaskChCap

\* Submit, lines 105-110: the non-blocking send on the worker's task
\* channel, or the handler on a goroutine of its own.
SubmitSend(c) ==
    /\ Running
    /\ conn[c].stage = "submit"
    /\ LET w == conn[c].w IN
       IF wk[w].closed
       THEN \* send on a closed channel
            /\ srv' = [srv EXCEPT !.proc = "panicked",
                                  !.why = "send on closed channel"]
            /\ UNCHANGED <<conn, wk>>
       ELSE IF ~ChanFull(wk[w].q)
       THEN /\ wk' = [wk EXCEPT ![w].q = Append(@, c)]
            /\ conn' = [conn EXCEPT ![c] = [@ EXCEPT !.stage = "wait",
                                              !.run = "queued"]]
            /\ UNCHANGED srv
       ELSE /\ conn' = [conn EXCEPT ![c] = Started([@ EXCEPT !.stage = "wait"], FALSE)]
            /\ UNCHANGED <<wk, srv>>
    /\ UNCHANGED <<now, lastActive, workers, sendVars, lockVars, lifeVars, regVars,
                   resolveVars, launchVars, readerVars, reverseVars,
                   protoVars, reqidVars, pendVars, entVars, multiVars,
                   twinVars, pasteVars>>

\* A worker that forgets the order of its channel.
ReceivedLast(q) == Last(q)

\* The task a worker receives from its channel.
Received(q) == Head(q)

\* A worker that starts the handler on a goroutine of its own.
OccupiedAsync(c) == 0

\* runWorker calls w.handler(task.Ctx, task) and is busy until it returns.
Occupied(c) == c

\* runWorker: the worker receives from its channel and calls the handler.
WorkerTake(w) ==
    /\ Running
    /\ wk[w].alive /\ wk[w].cur = 0
    /\ wk[w].q # <<>>
    /\ LET c == Received(wk[w].q) IN
       /\ wk' = [wk EXCEPT ![w].q = SelectSeq(@, LAMBDA d : d # c), ![w].cur = Occupied(c)]
       /\ conn' = [conn EXCEPT ![c] = Started(@, TRUE)]
    /\ UNCHANGED <<now, lastActive, workers, srv, sendVars, lockVars, lifeVars,
                   regVars, resolveVars, launchVars, readerVars, reverseVars,
                   protoVars, reqidVars, pendVars, entVars, multiVars,
                   twinVars, pasteVars>>

\* runWorker returns: its context is cancelled, or the channel is closed
\* and drained.
WorkerExit(w) ==
    /\ Running
    /\ wk[w].alive /\ wk[w].cur = 0
    /\ wk[w].closed
    /\ wk' = [wk EXCEPT ![w].alive = FALSE]
    /\ UNCHANGED <<now, conn, lastActive, workers, srv, sendVars, lockVars, lifeVars,
                   regVars, resolveVars, launchVars, readerVars, reverseVars,
                   protoVars, reqidVars, pendVars, entVars, multiVars,
                   twinVars, pasteVars>>

\* The worker that called the handler of c is free again when it returns.
Released(w, c) == IF wk[w].cur = c THEN [wk[w] EXCEPT !.cur = 0] ELSE wk[w]

\* The handler's a.Send returns and the result goes to task.ResultCh,
\* where nobody receives it once the connection has been answered.
HandlerFinish(c, res) ==
    /\ Running
    /\ conn[c].run = "running"
    /\ conn' = [conn EXCEPT ![c].run = "done",
                             ![c].resultCh = IF conn[c].stage = "closed"
                                             THEN NoResp ELSE res]
    /\ wk' = [w \in WorkerIds |-> Released(w, c)]
    /\ UNCHANGED <<now, lastActive, workers, srv, sendVars, lockVars, lifeVars,
                   regVars, resolveVars, launchVars, readerVars, reverseVars,
                   protoVars, reqidVars, pendVars, entVars, multiVars,
                   twinVars, pasteVars>>

\* WorkerPool.Shutdown: cancel and close every worker, empty the map.
ShutdownWorkers ==
    /\ wk' = [w \in WorkerIds |->
                 IF \E k \in SessionKeys : workers[k] = w
                 THEN [wk[w] EXCEPT !.closed = TRUE] ELSE wk[w]]
    /\ workers' = [k \in SessionKeys |-> 0]

\* A caller of the pool shuts it down.
PoolShutdown ==
    /\ Running
    /\ \E k \in SessionKeys : workers[k] # 0
    /\ ShutdownWorkers
    /\ UNCHANGED <<now, conn, lastActive, srv, sendVars, lockVars, lifeVars,
                   regVars, resolveVars, launchVars, readerVars, reverseVars,
                   protoVars, reqidVars, pendVars, entVars, multiVars,
                   twinVars, pasteVars>>

(***************************************************************************)
(* The daemon server.                                                      *)
(***************************************************************************)
ServerConns == 1..MaxServerConns

ServerToken == "tok"
Providers == {"codex"}          \* Registry.adapters
TickStep == 11 * Second

Req(method, provider, workDir) ==
    [valid |-> TRUE, token |-> ServerToken, method |-> method,
     provider |-> provider, workDir |-> workDir,
     message |-> IF method = "request" THEN "hello" ELSE "", timeoutS |-> 1]

\* The request objects clients send.
Requests ==
    { NoReq,
      [Req("request", "codex", "w1") EXCEPT !.token = "bad"],
      Req("ping", "", ""), Req("shutdown", "", ""), Req("nosuch", "", ""),
      Req("request", "", "w1"), Req("request", "gpt", "w1"),
      Req("request", "codex", "w1") }

\* fmt.Sprintf("%s:%s", provider, provReq.WorkDir)
SessionKey(provider, workDir) ==
    IF provider = "codex" /\ workDir = "w1" THEN "codex:w1" ELSE "codex:w2"

\* sendJSON then the deferred conn.Close(); the context and the result
\* channel of the request are not looked at again.
Respond(cn, resp) ==
    [cn EXCEPT !.stage = "closed", !.resp = resp, !.nresp = @ + 1,
               !.deadline = 0, !.resultCh = NoResp]

\* acceptLoop: Accept returns the next connection and starts handleConn.
Accept(c) ==
    /\ Running /\ srv.listener /\ boot.pc = "started"
    /\ conn[c].stage = "none"
    /\ \A d \in Conns : d < c => conn[d].stage # "none"
    /\ conn' = [conn EXCEPT ![c].stage = "accepted"]
    /\ UNCHANGED <<now, lastActive, workers, wk, srv, sendVars, lockVars, lifeVars,
                   regVars, resolveVars, launchVars, readerVars, reverseVars,
                   protoVars, reqidVars, pendVars, entVars, multiVars,
                   twinVars, pasteVars>>

\* touchActivity called before the token is verified.
TouchedUnverified(r) == r.valid

\* Where handleConn calls touchActivity: after the token check.
Touched(r) == r.valid /\ r.token = ServerToken

\* handleConn: decode, verify the token, touchActivity, dispatch; for a
\* request, handleRequest up to the end of Submit's critical section.
\* The methods status and pend are not among Requests.
HandleConn(c, r) ==
    /\ Running
    /\ conn[c].stage = "accepted"
    /\ lastActive' = IF Touched(r) THEN now ELSE lastActive
    /\ LET cn == [conn[c] EXCEPT !.req = r] IN
       IF ~r.valid
       THEN /\ conn' = [conn EXCEPT ![c] = Respond(cn, ErrorResp("invalid request"))]
            /\ UNCHANGED <<workers, wk, srv>>
       ELSE IF r.token # ServerToken
       THEN /\ conn' = [conn EXCEPT ![c] = Respond(cn, ErrorResp("invalid token"))]
            /\ UNCHANGED <<workers, wk, srv>>
       ELSE
         CASE r.method \in {"ping", ".ping"} ->
                   /\ conn' = [conn EXCEPT ![c] = Respond(cn, OkResp)]
                   /\ UNCHANGED <<workers, wk, srv>>
           [] r.method \in {"shutdown", ".shutdown"} ->
                   /\ conn' = [conn EXCEPT ![c] = Respond(cn, OkResp)]
                   /\ srv' = [srv EXCEPT !.rpcPending = @ + 1]
                   /\ UNCHANGED <<workers, wk>>
           [] r.method \in {"request", ".request", "ask"} ->
                   IF r.provider = ""
                   THEN /\ conn' = [conn EXCEPT ![c] =
                                       Respond(cn, ErrorResp("missing provider"))]
                        /\ UNCHANGED <<workers, wk, srv>>
                   ELSE IF r.provider \notin Providers
                   THEN /\ conn' = [conn EXCEPT ![c] =
                                       Respond(cn, ErrorResp("unknown provider: " \o r.provider))]
                        /\ UNCHANGED <<workers, wk, srv>>
                   ELSE /\ SubmitLocked(c,
                              [cn EXCEPT !.deadline = now + (r.timeoutS + 10) * Second],
                              SessionKey(r.provider, r.workDir))
                        /\ UNCHANGED srv
           [] OTHER ->
                   /\ conn' = [conn EXCEPT ![c] =
                                  Respond(cn, ErrorResp("unknown method: " \o r.method))]
                   /\ UNCHANGED <<workers, wk, srv>>
    /\ UNCHANGED <<now, sendVars, lockVars, lifeVars, regVars, resolveVars,
                   launchVars, readerVars, reverseVars, protoVars, reqidVars,
                   pendVars, entVars, multiVars, twinVars, pasteVars>>

\* handleRequest's select, case result := <-task.ResultCh
ConnResult(c) ==
    /\ Running
    /\ conn[c].stage = "wait"
    /\ conn[c].resultCh # NoResp
    /\ conn' = [conn EXCEPT ![c] = Respond(@, conn[c].resultCh)]
    /\ UNCHANGED <<now, lastActive, workers, wk, srv, sendVars, lockVars, lifeVars,
                   regVars, resolveVars, launchVars, readerVars, reverseVars,
                   protoVars, reqidVars, pendVars, entVars, multiVars,
                   twinVars, pasteVars>>

\* handleRequest's select, case <-ctx.Done()
ConnTimeout(c) ==
    /\ Running
    /\ conn[c].stage = "wait"
    /\ now >= conn[c].deadline
    /\ conn' = [conn EXCEPT ![c] = Respond(@, ResultResp(2, "timeout"))]
    /\ UNCHANGED <<now, lastActive, workers, wk, srv, sendVars, lockVars, lifeVars,
                   regVars, resolveVars, launchVars, readerVars, reverseVars,
                   protoVars, reqidVars, pendVars, entVars, multiVars,
                   twinVars, pasteVars>>

\* Server.Shutdown, lines 301-304: close(s.shutdown), which panics when
\* the channel is closed already, then listener.Close().
CloseShutdownCh(sv) ==
    IF sv.shutdownClosed
    THEN [sv EXCEPT !.proc = "panicked", !.why = "close of closed channel"]
    ELSE [sv EXCEPT !.shutdownClosed = TRUE, !.listener = FALSE,
                    !.sdpc = "pool"]

\* handleShutdown's goroutine, after its 100 ms sleep, calls Shutdown.
RpcShutdown ==
    /\ Running
    /\ srv.rpcPending > 0
    /\ srv' = CloseShutdownCh([srv EXCEPT !.rpcPending = @ - 1])
    /\ UNCHANGED <<now, conn, lastActive, workers, wk, sendVars, lockVars, lifeVars,
                   regVars, resolveVars, launchVars, readerVars, reverseVars,
                   protoVars, reqidVars, pendVars, entVars, multiVars,
                   twinVars, pasteVars>>

\* UnifiedDaemon.Run receives a signal and calls Shutdown.
SignalShutdown ==
    /\ Running /\ boot.pc = "started"
    /\ srv.main = "select"
    /\ srv' = CloseShutdownCh([srv EXCEPT !.main = "shutdown"])
    /\ UNCHANGED <<now, conn, lastActive, workers, wk, sendVars, lockVars, lifeVars,
                   regVars, resolveVars, launchVars, readerVars, reverseVars,
                   protoVars, reqidVars, pendVars, entVars, multiVars,
                   twinVars, pasteVars>>

\* Server.Shutdown, line 305: s.workerPool.Shutdown()
ShutdownPool ==
    /\ Running
    /\ srv.sdpc = "pool"
    /\ ShutdownWorkers
    /\ srv' = [srv EXCEPT !.sdpc = "state"]
    /\ UNCHANGED <<now, conn, lastActive, sendVars, lockVars, lifeVars, regVars,
                   resolveVars, launchVars, readerVars, reverseVars,
                   protoVars, reqidVars, pendVars, entVars, multiVars,
                   twinVars, pasteVars>>

\* Server.Shutdown, line 306: removeState; Shutdown returns.
ShutdownState ==
    /\ Running
    /\ srv.sdpc = "state"
    /\ stateDoc' = Absent
    /\ srv' = [srv EXCEPT !.sdpc = "done"]
    /\ UNCHANGED <<now, conn, lastActive, workers, wk, sendVars, lockVars,
                   daemonCfg, parentAlive, boot, lastRead, regVars,
                   resolveVars, launchVars, readerVars, reverseVars,
                   protoVars, reqidVars, pendVars, entVars, multiVars,
                   twinVars, pasteVars>>

\* UnifiedDaemon.Run gets past its select (its own Shutdown has returned,
\* or it received from s.shutdown), acceptLoop returns on the closed
\* listener and closes s.done, Wait and Run return and the process ends
\* with all its goroutines.
ProcessExit ==
    /\ Running
    /\ srv.shutdownClosed
    /\ srv.main = "select" \/ (srv.main = "shutdown" /\ srv.sdpc = "done")
    /\ ~srv.listener
    /\ srv' = [srv EXCEPT !.proc = "exited"]
    /\ UNCHANGED <<now, conn, lastActive, workers, wk, sendVars, lockVars, lifeVars,
                   regVars, resolveVars, launchVars, readerVars, reverseVars,
                   protoVars, reqidVars, pendVars, entVars, multiVars,
                   twinVars, pasteVars>>

Tick ==
    /\ Running
    /\ now < MaxTicks * TickStep
    /\ now' = now + TickStep
    /\ UNCHANGED <<sendVars, lockVars, poolVars, lifeVars, regVars, resolveVars,
                   launchVars, readerVars, reverseVars, protoVars, reqidVars,
                   pendVars, entVars, multiVars, twinVars, pasteVars>>

(***************************************************************************)
(* Daemon life cycle: Start, the state file, the idle and parent monitors. *)
(***************************************************************************)
IdleTick == 30 * Second         \* time.NewTicker(30 * time.Second)
ParentTick == 5 * Second        \* time.NewTicker(5 * time.Second)

\* json.MarshalIndent of DaemonState{Host, Port, Token, PID}
StateJSON == "{host, port, token, pid}"

\* client.ReadState: os.ReadFile, then json.Unmarshal of what it read.
ReadState(doc) ==
    IF doc = Absent THEN "daemon not running (no state file)"
    ELSE IF doc = StateJSON THEN "state"
    ELSE "invalid state file"

\* A client reads the state file.
ClientReadState ==
    /\ lastRead' = ReadState(stateDoc)
    /\ UNCHANGED <<now, sendVars, lockVars, poolVars, daemonCfg, parentAlive,
                   boot, stateDoc, regVars, resolveVars, launchVars,
                   readerVars, reverseVars, protoVars, reqidVars, pendVars,
                   entVars, multiVars, twinVars, pasteVars>>

\* Start, lines 79-88: net.Listen.
StartListen ==
    /\ Running /\ boot.pc = "new"
    /\ srv' = [srv EXCEPT !.listener = TRUE]
    /\ boot' = [boot EXCEPT !.pc = "listening"]
    /\ UNCHANGED <<now, conn, lastActive, workers, wk, sendVars, lockVars,
                   daemonCfg, parentAlive, stateDoc, lastRead, regVars,
                   resolveVars, launchVars, readerVars, reverseVars,
                   protoVars, reqidVars, pendVars, entVars, multiVars,
                   twinVars, pasteVars>>

\* writeState, os.WriteFile: open with O_WRONLY|O_CREATE|O_TRUNC.
WriteStateOpen ==
    /\ Running /\ boot.pc = "listening"
    /\ stateDoc' = ""
    /\ boot' = [boot EXCEPT !.pc = "opened"]
    /\ UNCHANGED <<now, sendVars, lockVars, poolVars, daemonCfg, parentAlive,
                   lastRead, regVars, resolveVars, launchVars, readerVars,
                   reverseVars, protoVars, reqidVars, pendVars, entVars,
                   multiVars, twinVars, pasteVars>>

\* writeState, os.WriteFile: Write and Close.
WriteStateWrite ==
    /\ Running /\ boot.pc = "opened"
    /\ stateDoc' = StateJSON
    /\ boot' = [boot EXCEPT !.pc = "written"]
    /\ UNCHANGED <<now, sendVars, lockVars, poolVars, daemonCfg, parentAlive,
                   lastRead, regVars, resolveVars, launchVars, readerVars,
                   reverseVars, protoVars, reqidVars, pendVars, entVars,
                   multiVars, twinVars, pasteVars>>

\* Start, lines 100-108: the monitors and acceptLoop are started; the
\* parent monitor only when a parent PID was given.
StartMonitors ==
    /\ Running /\ boot.pc = "written"
    /\ boot' = [boot EXCEPT !.pc = "started",
                            !.idle = "on", !.idleNext = now + IdleTick,
                            !.parent = IF daemonCfg.ParentPID > 0 THEN "on"
                                       ELSE "off",
                            !.parentNext = now + ParentTick]
    /\ UNCHANGED <<now, sendVars, lockVars, poolVars, daemonCfg, parentAlive,
                   stateDoc, lastRead, regVars, resolveVars, launchVars,
                   readerVars, reverseVars, protoVars, reqidVars, pendVars,
                   entVars, multiVars, twinVars, pasteVars>>

\* idle >= s.idleTimeout in place of idle > s.idleTimeout
IdleExpiredAtLimit(idle, timeout) == idle >= timeout

\* idleMonitor, line 346.
IdleExpired(idle, timeout) == idle > timeout

\* idleMonitor, one turn of its select: with s.shutdown closed it may
\* return; on a tick it compares time.Since(lastActive) with the idle
\* timeout and calls Shutdown.
IdleMonitor ==
    /\ Running /\ boot.idle = "on"
    /\ \/ /\ srv.shutdownClosed
          /\ boot' = [boot EXCEPT !.idle = "returned"]
          /\ UNCHANGED srv
       \/ /\ now = boot.idleNext
          /\ IF IdleExpired(now - lastActive, daemonCfg.IdleTimeout)
             THEN /\ srv' = CloseShutdownCh(srv)
                  /\ boot' = [boot EXCEPT !.idle = "shutdown",
                                          !.idleNext = @ + IdleTick]
             ELSE /\ boot' = [boot EXCEPT !.idleNext = @ + IdleTick]
                  /\ UNCHANGED srv
    /\ UNCHANGED <<now, conn, lastActive, workers, wk, sendVars, lockVars,
                   daemonCfg, parentAlive, stateDoc, lastRead, regVars,
                   resolveVars, launchVars, readerVars, reverseVars,
                   protoVars, reqidVars, pendVars, entVars, multiVars,
                   twinVars, pasteVars>>

\* os.FindProcess: on Windows OpenProcess fails for a PID that does not
\* exist; on Unix it always succeeds.
FindProcessErr(goos, alive) == goos = "windows" /\ ~alive

\* parentMonitor, one turn of its select.
ParentMonitor ==
    /\ Running /\ boot.parent = "on"
    /\ \/ /\ srv.shutdownClosed
          /\ boot' = [boot EXCEPT !.parent = "returned"]
          /\ UNCHANGED srv
       \/ /\ now = boot.parentNext
          /\ IF FindProcessErr(daemonCfg.goos, parentAlive)
             THEN /\ srv' = CloseShutdownCh(srv)
                  /\ boot' = [boot EXCEPT !.parent = "shutdown",
                                          !.parentNext = @ + ParentTick]
             ELSE /\ boot' = [boot EXCEPT !.parentNext = @ + ParentTick]
                  /\ UNCHANGED srv
    /\ UNCHANGED <<now, conn, lastActive, workers, wk, sendVars, lockVars,
                   daemonCfg, parentAlive, stateDoc, lastRead, regVars,
                   resolveVars, launchVars, readerVars, reverseVars,
                   protoVars, reqidVars, pendVars, entVars, multiVars,
                   twinVars, pasteVars>>

\* The process with the parent PID ends.
ParentExits ==
    /\ parentAlive
    /\ parentAlive' = FALSE
    /\ UNCHANGED <<now, sendVars, lockVars, poolVars, daemonCfg, boot,
                   stateDoc, lastRead, regVars, resolveVars, launchVars,
                   readerVars, reverseVars, protoVars, reqidVars, pendVars,
                   entVars, multiVars, twinVars, pasteVars>>

\* The time of the next tick of a ticker that is read by its monitor.
NextDue ==
    IF boot.parent = "on" /\ boot.parentNext < boot.idleNext
    THEN boot.parentNext ELSE boot.idleNext

\* Time passes up to the next tick of a running monitor; the monitors take
\* their ticks when they fall due.
LifeClock ==
    /\ Running
    /\ boot.pc = "started" /\ boot.idle = "on"
    /\ now < MaxIdleTicks * IdleTick
    /\ now < NextDue
    /\ now' = NextDue
    /\ UNCHANGED <<sendVars, lockVars, poolVars, lifeVars, regVars, resolveVars,
                   launchVars, readerVars, reverseVars, protoVars, reqidVars,
                   pendVars, entVars, multiVars, twinVars, pasteVars>>

(***************************************************************************)
(* PaneRegistry: Upsert and saveLocked.                                    *)
(***************************************************************************)
Upserters == 1..NumUpserts

\* The (provider, projectID) key that goroutine w registers; key 0 is an
\* entry the registry file held before.
RegKey(w) == w

\* A file: whether it exists, the entries of the document written to it,
\* and whether the document is there in full (an empty or cut-off file does
\* not parse).
NoFile == [exists |-> FALSE, entries |-> {}, whole |-> FALSE]
OpenedFile == [exists |-> TRUE, entries |-> {}, whole |-> FALSE]
WrittenFile(data) == [exists |-> TRUE, entries |-> data, whole |-> TRUE]

\* saveLocked writing r.filePath itself
TmpNameInPlace == "path"

\* saveLocked, line 390: tmpFile := r.filePath + ".tmp"
TmpName == "tmp"

IdleUpsert == [pc |-> "idle", data |-> {}]

\* sync.Mutex never excluding anybody
MuFreeAlways(holder) == TRUE

\* r.mu.Lock() succeeds when nobody holds the mutex.
MuFree(holder) == holder = 0

\* load: the entries of a file that exists and parses, else none.
RegLoad(file) == IF file.exists /\ file.whole THEN file.entries ELSE {}

\* Upsert, line 103: r.mu.Lock()
UpsertLock(w) ==
    /\ regProc = "running"
    /\ regW[w].pc = "idle"
    /\ MuFree(regMu)
    /\ regMu' = w
    /\ regW' = [regW EXCEPT ![w].pc = "locked"]
    /\ UNCHANGED <<now, sendVars, lockVars, poolVars, lifeVars, regData,
                   regFs, regProc, resolveVars, launchVars, readerVars,
                   reverseVars, protoVars, reqidVars, pendVars, entVars,
                   multiVars, twinVars, pasteVars>>

\* Upsert, lines 106-113, and saveLocked up to json.MarshalIndent.
UpsertStore(w) ==
    /\ regProc = "running"
    /\ regW[w].pc = "locked"
    /\ regData' = regData \cup {RegKey(w)}
    /\ regW' = [regW EXCEPT ![w].pc = "marshalled", ![w].data = regData']
    /\ UNCHANGED <<now, sendVars, lockVars, poolVars, lifeVars, regMu,
                   regFs, regProc, resolveVars, launchVars, readerVars,
                   reverseVars, protoVars, reqidVars, pendVars, entVars,
                   multiVars, twinVars, pasteVars>>

\* saveLocked, os.WriteFile(tmpFile): open with O_CREATE|O_TRUNC.
SaveOpen(w) ==
    /\ regProc = "running"
    /\ regW[w].pc = "marshalled"
    /\ regFs' = [regFs EXCEPT ![TmpName] = OpenedFile]
    /\ regW' = [regW EXCEPT ![w].pc = "opened"]
    /\ UNCHANGED <<now, sendVars, lockVars, poolVars, lifeVars, regData,
                   regMu, regProc, resolveVars, launchVars, readerVars,
                   reverseVars, protoVars, reqidVars, pendVars, entVars,
                   multiVars, twinVars, pasteVars>>

\* saveLocked, os.WriteFile(tmpFile): Write and Close.
SaveWrite(w) ==
    /\ regProc = "running"
    /\ regW[w].pc = "opened"
    /\ regFs' = [regFs EXCEPT ![TmpName] = WrittenFile(regW[w].data)]
    /\ regW' = [regW EXCEPT ![w].pc = "written"]
    /\ UNCHANGED <<now, sendVars, lockVars, poolVars, lifeVars, regData,
                   regMu, regProc, resolveVars, launchVars, readerVars,
                   reverseVars, protoVars, reqidVars, pendVars, entVars,
                   multiVars, twinVars, pasteVars>>

\* saveLocked, line 394: os.Rename(tmpFile, r.filePath), which fails and
\* changes nothing when tmpFile is not there.
SaveRename(w) ==
    /\ regProc = "running"
    /\ regW[w].pc = "written"
    /\ regFs' = IF regFs[TmpName].exists /\ TmpName # "path"
                THEN [regFs EXCEPT !["path"] = regFs[TmpName],
                                   ![TmpName] = NoFile]
                ELSE regFs
    /\ regW' = [regW EXCEPT ![w].pc = "renamed"]
    /\ UNCHANGED <<now, sendVars, lockVars, poolVars, lifeVars, regData,
                   regMu, regProc, resolveVars, launchVars, readerVars,
                   reverseVars, protoVars, reqidVars, pendVars, entVars,
                   multiVars, twinVars, pasteVars>>

\* Upsert returns: the deferred r.mu.Unlock().
UpsertReturn(w) ==
    /\ regProc = "running"
    /\ regW[w].pc = "renamed"
    /\ regMu' = IF regMu = w THEN 0 ELSE regMu
    /\ regW' = [regW EXCEPT ![w].pc = "done"]
    /\ UNCHANGED <<now, sendVars, lockVars, poolVars, lifeVars, regData,
                   regFs, regProc, resolveVars, launchVars, readerVars,
                   reverseVars, protoVars, reqidVars, pendVars, entVars,
                   multiVars, twinVars, pasteVars>>

\* The process is killed between two steps; the files stay as they are.
RegCrash ==
    /\ regProc = "running"
    /\ \E w \in Upserters : regW[w].pc \notin {"idle", "done"}
    /\ regProc' = "crashed"
    /\ UNCHANGED <<now, sendVars, lockVars, poolVars, lifeVars, regData,
                   regMu, regFs, regW, resolveVars, launchVars, readerVars,
                   reverseVars, protoVars, reqidVars, pendVars, entVars,
                   multiVars, twinVars, pasteVars>>

\* NewPaneRegistry in a new process: load, and new goroutines.
RegRestart ==
    /\ regProc = "crashed"
    /\ regProc' = "running"
    /\ regData' = RegLoad(regFs["path"])
    /\ regMu' = 0
    /\ regW' = [w \in Upserters |-> IdleUpsert]
    /\ UNCHANGED <<now, sendVars, lockVars, poolVars, lifeVars, regFs, resolveVars,
                   launchVars, readerVars, reverseVars, protoVars, reqidVars,
                   pendVars, entVars, multiVars, twinVars, pasteVars>>

(***************************************************************************)
(* SessionResolver.Resolve.                                                *)
(***************************************************************************)
\* Registry entries; the work directory of the call has project id "p1".
Entry(provider, project, pane, sid, claudePane, updatedAt) ==
    [provider |-> provider, project |-> project, PaneID |-> pane,
     SessionID |-> sid, ClaudePane |-> claudePane, UpdatedAt |-> updatedAt]

EntryOwn == Entry("claude", "p1", "%1", "s1", "%9", 5)
EntryOwnNoPane == Entry("claude", "p1", "", "s1", "%9", 5)
EntryOther == Entry("claude", "p2", "%2", "s2", "", 7)
EntryCodex == Entry("codex", "p1", "%3", "s3", "%9", 9)

\* The registries a resolver can hold: none, or a map of entries.
Registries ==
    {<<"nil">>} \cup
    { <<"map", own \cup rest>> :
          own \in {{}, {EntryOwn}, {EntryOwnNoPane}},
          rest \in SUBSET {EntryOther, EntryCodex} }

RegEntries(reg) == IF reg[1] = "nil" THEN {} ELSE reg[2]

NilResult == [Source |-> "", SessionID |-> "", ProjectKey |-> "",
              PaneID |-> "", LogFile |-> "", err |-> FALSE]

Resolved(source, sid, key, pane) ==
    [NilResult EXCEPT !.Source = source, !.SessionID = sid,
                      !.ProjectKey = key, !.PaneID = pane]

\* strings.TrimSpace of an environment variable.
TrimEnv(v) == IF v = " " THEN "" ELSE v

\* backend == nil || backend.IsAlive(pane)
PaneUsable(in, pane) == in.backend[1] = "nil" \/ pane \in in.backend[2]

\* Stage 1, resolveFromEnv; GetBySessionID returns any entry that matches.
ResolveFromEnv(in) ==
    LET sessionID == TrimEnv(in.CCB_SESSION_ID)
        hits == {e \in RegEntries(in.registry) : e.SessionID = sessionID}
    IN IF sessionID = "" THEN {}
       ELSE IF hits # {}
       THEN {Resolved("env", sessionID, e.provider, e.PaneID) : e \in hits}
       ELSE {Resolved("env", sessionID, "", "")}

\* Stage 2, resolveFromRegistryByProject.
ResolveFromRegistryByProject(in) ==
    { Resolved("registry_project", e.SessionID, "p1", e.PaneID) :
        e \in { x \in RegEntries(in.registry) :
                  /\ x.provider = "claude" /\ x.project = "p1"
                  /\ x.PaneID # ""
                  /\ PaneUsable(in, x.PaneID) } }

\* Stage 3, resolveFromRegistryUnfiltered: the usable claude entry with
\* the greatest UpdatedAt above 0.
ResolveFromRegistryUnfiltered(in) ==
    LET cand == { x \in RegEntries(in.registry) :
                    /\ x.provider = "claude"
                    /\ x.PaneID # ""
                    /\ PaneUsable(in, x.PaneID)
                    /\ x.UpdatedAt > 0 }
    IN { Resolved("registry_unfiltered", e.SessionID, e.project, e.PaneID) :
           e \in { x \in cand : \A y \in cand : y.UpdatedAt <= x.UpdatedAt } }

\* Stage 4, resolveFromSessionFile.
ResolveFromSessionFile(in) ==
    LET sessionFile == FindProjectSessionFile(in.files) IN
    IF sessionFile = "" THEN {}
    ELSE LET content == ReadSessionFile(in.files, sessionFile) IN
         IF content = "" THEN {}
         ELSE {Resolved("session_file", "", "", content)}

\* Stage 5, resolveFromRegistryByPane; GetByClaudePane returns any entry
\* that matches.
ResolveFromRegistryByPane(in) ==
    LET tmux == TrimEnv(in.TMUX_PANE)
        currentPane == IF tmux # "" THEN tmux ELSE TrimEnv(in.WEZTERM_PANE)
    IN IF in.registry[1] = "nil" \/ currentPane = "" THEN {}
       ELSE { Resolved("registry_pane", e.SessionID, e.provider, e.PaneID) :
                e \in { x \in RegEntries(in.registry) :
                          x.ClaudePane = currentPane } }

\* Stage 6, resolveBestFallback over what ResolveClaudeSession returns.
ResolveBestFallback(in) ==
    CASE in.fallback = "err" -> {[NilResult EXCEPT !.err = TRUE]}
      [] in.fallback = "info" -> {Resolved("fallback", "s9", "key9", "")}
      [] OTHER -> {NilResult}

\* The result of stage i.
Stage(i, in) ==
    CASE i = 1 -> ResolveFromEnv(in)
      [] i = 2 -> ResolveFromRegistryByProject(in)
      [] i = 3 -> ResolveFromRegistryUnfiltered(in)
      [] i = 4 -> ResolveFromSessionFile(in)
      [] i = 5 -> ResolveFromRegistryByPane(in)
      [] OTHER -> ResolveBestFallback(in)

\* Resolve with the session file looked at after the pane of the registry
StageOrderPaneFirst == <<1, 2, 3, 5, 4, 6>>

\* The order in which Resolve calls the stages, lines 46-74.
StageOrder == <<1, 2, 3, 4, 5, 6>>

\* Resolve from its k-th call on: the first stage that returns a result.
RECURSIVE ResolveFrom(_, _)
ResolveFrom(k, in) ==
    IF k = Len(StageOrder) THEN Stage(StageOrder[k], in)
    ELSE IF Stage(StageOrder[k], in) # {} THEN Stage(StageOrder[k], in)
    ELSE ResolveFrom(k + 1, in)

Resolve(in) == ResolveFrom(1, in)

NotCalled == [NilResult EXCEPT !.Source = "<not called>"]

\* A caller runs Resolve on its work directory.
CallResolve ==
    /\ rsOut = NotCalled
    /\ rsOut' \in Resolve(rsIn)
    /\ UNCHANGED <<now, sendVars, lockVars, poolVars, lifeVars, regVars, rsIn,
                   launchVars, readerVars, reverseVars, protoVars, reqidVars,
                   pendVars, entVars, multiVars, twinVars, pasteVars>>

(***************************************************************************)
(* The launcher's registerSession and the adapter's EnsurePane.            *)
(***************************************************************************)
\* json.MarshalIndent of a session object; of its fields only pane_id is
\* kept.
SessionJSON(paneID) == "{\"pane_id\": \"" \o paneID \o "\"}"

LaunchPanes == {"%10", "%11"}

\* writeSessionFile: an existing JSON session gets its pane_id replaced
\* (lines 298-310), anything else is overwritten by a new JSON session
\* (lines 313-324); either way the file is JSON with the given pane_id.
WriteSessionFile(content, paneID) == SessionJSON(paneID)

\* registerSession for provider codex: the session file in .ccb_config.
RegisterSession(paneID) ==
    /\ paneID # ""
    /\ launched = ""
    /\ sessFiles' = [sessFiles EXCEPT !.cfg = WriteSessionFile(@, paneID)]
    /\ launched' = paneID
    /\ UNCHANGED <<now, backend, paneAlive, logPath, log, paneInput, req,
                   send, lastReply, probedDead, lockVars, poolVars, lifeVars,
                   regVars, resolveVars, ensured, readerVars, reverseVars,
                   protoVars, reqidVars, pendVars, entVars, multiVars,
                   twinVars, pasteVars>>

\* CodexAdapter.EnsurePane.
EnsurePane ==
    /\ LET sess == LoadCodexSession(sessFiles, req.WorkDir, logPath) IN
       ensured' = IF /\ sess.found /\ sess.PaneID # ""
                     /\ backend # "nil" /\ IsAlive(sess.PaneID)
                  THEN <<"pane", sess.PaneID>>
                  ELSE <<"error", "no codex session configured">>
    /\ UNCHANGED <<now, sendVars, lockVars, poolVars, lifeVars, regVars,
                   resolveVars, launched, readerVars, reverseVars, protoVars,
                   reqidVars, pendVars, entVars, multiVars, twinVars,
                   pasteVars>>

(***************************************************************************)
(* LogReader.ReadNew.                                                      *)
(***************************************************************************)
\* The characters that matter to ReadNew: newline, carriage return, other.
Chars == {"\n", "\r", "a"}

\* strings.Split(text, "\n")
RECURSIVE SplitNewline(_)
SplitNewline(text) ==
    IF \A i \in 1..Len(text) : text[i] # "\n" THEN <<text>>
    ELSE LET i == CHOOSE k \in 1..Len(text) :
                     /\ text[k] = "\n"
                     /\ \A j \in 1..(k - 1) : text[j] # "\n"
         IN <<SubSeq(text, 1, i - 1)>> \o
            SplitNewline(SubSeq(text, i + 1, Len(text)))

\* strings.TrimRight(p, "\r")
RECURSIVE TrimRightCR(_)
TrimRightCR(p) ==
    IF p # <<>> /\ p[Len(p)] = "\r" THEN TrimRightCR(SubSeq(p, 1, Len(p) - 1))
    ELSE p

NewLogReader == [offset |-> 0, carry |-> <<>>, returned |-> <<>>, joined |-> FALSE]

\* A reader that forgets the incomplete line of the last read
CarryDropped(carry) == <<>>

\* ReadNew, line 330: text := r.carry + string(data)
CarryKept(carry) == carry

\* ReadNew on the file as it is; returned collects the lines of all calls,
\* joined records that a call completed a line it had carried over.
ReadNew(r, file) ==
    LET size == Len(file)
        r1 == IF size < r.offset THEN [r EXCEPT !.offset = 0, !.carry = <<>>]
              ELSE r
    IN IF size = r1.offset THEN r1
       ELSE LET data == SubSeq(file, r1.offset + 1, size)
                text == CarryKept(r1.carry) \o data
                parts == SplitNewline(text)
                lines == [i \in 1..(Len(parts) - 1) |-> TrimRightCR(parts[i])]
            IN [offset |-> r1.offset + Len(data),
                carry |-> parts[Len(parts)],
                returned |-> r1.returned \o lines,
                joined |-> r1.joined \/ (r1.carry # <<>> /\ Len(parts) > 1)]

\* A writer appends to the file.
AppendChar(c) ==
    /\ Len(tailed) < MaxFile
    /\ tailed' = Append(tailed, c)
    /\ UNCHANGED <<now, sendVars, lockVars, poolVars, lifeVars, regVars,
                   resolveVars, launchVars, rd, reverseVars, protoVars,
                   reqidVars, pendVars, entVars, multiVars, twinVars,
                   pasteVars>>

\* A call of ReadNew.
CallReadNew ==
    /\ rd' = ReadNew(rd, tailed)
    /\ UNCHANGED <<now, sendVars, lockVars, poolVars, lifeVars, regVars,
                   resolveVars, launchVars, tailed, reverseVars, protoVars,
                   reqidVars, pendVars, entVars, multiVars, twinVars,
                   pasteVars>>

(***************************************************************************)
(* ReverseReader.ReadLastLines, byte by byte.  The file is a sequence of   *)
(* characters; a line is a sequence of characters.                         *)
(***************************************************************************)
defaultChunkSize == 8192

\* The loop that drops the empty strings at the end of collected.
RECURSIVE TrimTrailingEmpty(_)
TrimTrailingEmpty(collected) ==
    IF collected # <<>> /\ collected[Len(collected)] = <<>>
    THEN TrimTrailingEmpty(SubSeq(collected, 1, Len(collected) - 1))
    ELSE collected

\* The chunk loop of ReadLastLines from position pos down: each round
\* reads readSize bytes before pos, puts leftover behind them, splits at
\* newlines, keeps the first part as leftover unless the file start was
\* reached, and prepends the other parts to collected.
RECURSIVE ReadChunks(_, _, _, _, _, _)
ReadChunks(file, chunkSize, n, pos, leftover, collected) ==
    IF ~(pos > 0 /\ Len(collected) < n + 1)
    THEN [leftover |-> leftover, collected |-> collected]
    ELSE LET readSize == IF pos < chunkSize THEN pos ELSE chunkSize
             pos1 == pos - readSize
             chunk == SubSeq(file, pos1 + 1, pos1 + readSize) \o leftover
             parts == SplitNewline(chunk)
             leftover1 == IF pos1 > 0 THEN parts[1] ELSE <<>>
             parts1 == IF pos1 > 0 THEN Tail(parts) ELSE parts
             lines == [i \in 1..Len(parts1) |-> TrimRightCR(parts1[i])]
         IN ReadChunks(file, chunkSize, n, pos1, leftover1, lines \o collected)

\* ReadLastLines(n) of a ReverseReader with the given ChunkSize.
ReverseReadLastLines(file, ChunkSize, n) ==
    IF n <= 0 \/ Len(file) = 0 THEN <<>>
    ELSE LET chunkSize == IF ChunkSize <= 0 THEN defaultChunkSize ELSE ChunkSize
             r == ReadChunks(file, chunkSize, n, Len(file), <<>>, <<>>)
             withLeft == IF r.leftover # <<>>
                         THEN <<TrimRightCR(r.leftover)>> \o r.collected
                         ELSE r.collected
             collected == TrimTrailingEmpty(withLeft)
         IN IF Len(collected) > n
            THEN SubSeq(collected, Len(collected) - n + 1, Len(collected))
            ELSE collected

\* A call of ReadLastLines on the file.
CallReadLastLines ==
    /\ ~rv.called
    /\ rv' = [rv EXCEPT !.called = TRUE,
                        !.out = ReverseReadLastLines(rv.file, rv.ChunkSize, rv.n)]
    /\ UNCHANGED <<now, sendVars, lockVars, poolVars, lifeVars, regVars,
                   resolveVars, launchVars, readerVars, protoVars, reqidVars,
                   pendVars, entVars, multiVars, twinVars, pasteVars>>

\* No ReverseReader in use.
ReverseQuiet ==
    rv = [file |-> <<>>, ChunkSize |-> 0, n |-> 0, called |-> FALSE, out |-> <<>>]

(***************************************************************************)
(* The protocol marker library on characters.  A string is a sequence of   *)
(* one-character strings, so the regular expressions and strings.Split,    *)
(* Join, TrimRight and TrimSpace are computed as Go computes them.         *)
(***************************************************************************)
Str_ReqIDPrefix == <<"C", "C", "B", "_", "R", "E", "Q", "_", "I", "D", ":">>
Str_DonePrefix == <<"C", "C", "B", "_", "D", "O", "N", "E", ":">>

Upper == {"A", "B", "C", "D", "E", "F", "G", "H", "I", "J", "K", "L", "M",
          "N", "O", "P", "Q", "R", "S", "T", "U", "V", "W", "X", "Y", "Z"}
Digit == {"0", "1", "2", "3", "4", "5", "6", "7", "8", "9"}

\* \s of Go's regexp, and the white space strings.TrimSpace removes (the
\* vertical tab, which only TrimSpace knows, is not in the model's texts).
ReSpace == {" ", "\t", "\n", "\f", "\r"}

AllIn(s, set) == \A i \in 1..Len(s) : s[i] \in set

From(s, i) == SubSeq(s, i, Len(s))

HasPrefix(s, p) == Len(s) >= Len(p) /\ SubSeq(s, 1, Len(p)) = p

\* \d{8}-\d{6}-\d{3}-\d+
ReqIDRE(s) ==
    /\ Len(s) >= 21
    /\ AllIn(SubSeq(s, 1, 8), Digit) /\ s[9] = "-"
    /\ AllIn(SubSeq(s, 10, 15), Digit) /\ s[16] = "-"
    /\ AllIn(SubSeq(s, 17, 19), Digit) /\ s[20] = "-"
    /\ AllIn(From(s, 21), Digit)

\* (?:\s*:\s*\d{8}-\d{6}-\d{3}-\d+)?\s*$
TagSuffixRE(u) ==
    \/ AllIn(u, ReSpace)
    \/ \E a \in 1..Len(u) :
          /\ AllIn(SubSeq(u, 1, a - 1), ReSpace) /\ u[a] = ":"
          /\ \E b \in a..Len(u) :
                /\ AllIn(SubSeq(u, a + 1, b), ReSpace)
                /\ \E c \in b..Len(u) :
                      /\ ReqIDRE(SubSeq(u, b + 1, c))
                      /\ AllIn(From(u, c + 1), ReSpace)

\* ^\s*[A-Z][A-Z0-9_]*_DONE(?:\s*:\s*\d{8}-\d{6}-\d{3}-\d+)?\s*$
genericDoneTagRE(line) ==
    \E i \in 0..Len(line) :
       /\ AllIn(SubSeq(line, 1, i), ReSpace)
       /\ i + 1 <= Len(line) /\ line[i + 1] \in Upper
       /\ \E j \in (i + 6)..Len(line) :
             /\ AllIn(SubSeq(line, i + 2, j - 5), Upper \cup Digit \cup {"_"})
             /\ SubSeq(line, j - 4, j) = <<"_", "D", "O", "N", "E">>
             /\ TagSuffixRE(From(line, j + 1))

\* ^\s*CCB_DONE\s*:
ccbDonePrefixRE(line) ==
    \E i \in 0..Len(line) :
       /\ AllIn(SubSeq(line, 1, i), ReSpace)
       /\ HasPrefix(From(line, i + 1), <<"C", "C", "B", "_", "D", "O", "N", "E">>)
       /\ \E j \in (i + 9)..Len(line) :
             AllIn(SubSeq(line, i + 9, j - 1), ReSpace) /\ line[j] = ":"

Str_isGenericDoneTag(line) == genericDoneTagRE(line) /\ ~ccbDonePrefixRE(line)

\* A pattern that matches no line.
NeverDoneLine(line, reqID) == FALSE

\* DoneLineRE(reqID).MatchString(line): ^\s*CCB_DONE:\s*<reqID>\s*$ with
\* the request id quoted, for a line without a line break.
Str_DoneLineRE(line, reqID) ==
    \E i \in 0..Len(line) :
       /\ AllIn(SubSeq(line, 1, i), ReSpace)
       /\ HasPrefix(From(line, i + 1), Str_DonePrefix)
       /\ \E j \in (i + 9)..Len(line) :
             /\ AllIn(SubSeq(line, i + 10, j), ReSpace)
             /\ HasPrefix(From(line, j + 1), reqID)
             /\ AllIn(From(line, j + 1 + Len(reqID)), ReSpace)

\* A line that is blank and nothing else counts as noise.
NoiseIsBlank(line) == AllIn(line, ReSpace)

Str_isTrailingNoiseLine(line) ==
    IF AllIn(line, ReSpace) THEN TRUE ELSE Str_isGenericDoneTag(line)

\* strings.TrimRight(s, cutset)
RECURSIVE TrimRight(_, _)
TrimRight(s, cutset) ==
    IF s # <<>> /\ s[Len(s)] \in cutset
    THEN TrimRight(SubSeq(s, 1, Len(s) - 1), cutset)
    ELSE s

\* strings.Join(lines, "\n")
RECURSIVE Join(_)
Join(lines) ==
    IF lines = <<>> THEN <<>>
    ELSE IF Len(lines) = 1 THEN lines[1]
    ELSE lines[1] \o <<"\n">> \o Join(Tail(lines))

Str_splitLines(text) ==
    IF text = <<>> THEN <<>>
    ELSE LET raw == SplitNewline(text)
         IN [i \in 1..Len(raw) |-> TrimRight(raw[i], {"\r", "\n"})]

RECURSIVE DoneScan(_, _)
DoneScan(lines, reqID) ==
    IF lines = <<>> THEN FALSE
    ELSE IF Str_isTrailingNoiseLine(lines[Len(lines)])
    THEN DoneScan(SubSeq(lines, 1, Len(lines) - 1), reqID)
    ELSE Str_DoneLineRE(lines[Len(lines)], reqID)

Str_IsDoneText(text, reqID) == DoneScan(Str_splitLines(text), reqID)

RECURSIVE Str_StripNoise(_)
Str_StripNoise(lines) ==
    IF lines # <<>> /\ Str_isTrailingNoiseLine(lines[Len(lines)])
    THEN Str_StripNoise(SubSeq(lines, 1, Len(lines) - 1))
    ELSE lines

Str_StripDoneText(text, reqID) ==
    LET l0 == Str_splitLines(text)
        l1 == Str_StripNoise(l0)
        l2 == IF l1 # <<>> /\ Str_DoneLineRE(l1[Len(l1)], reqID)
              THEN SubSeq(l1, 1, Len(l1) - 1) ELSE l1
        l3 == Str_StripNoise(l2)
    IN IF l0 = <<>> THEN <<>> ELSE TrimRight(Join(l3), {"\n", "\r", "\t", " "})

WrapInstructions ==
    <<"\n", "\n", "I", "M", "P", "O", "R", "T", "A", "N", "T", ":", "\n",
      "-", " ", "R", "e", "p", "l", "y", " ", "n", "o", "r", "m", "a", "l",
      "l", "y", ".", "\n", "-", " ", "R", "e", "p", "l", "y", " ", "n", "o",
      "r", "m", "a", "l", "l", "y", ",", " ", "i", "n", " ", "E", "n", "g",
      "l", "i", "s", "h", ".", "\n", "-", " ", "E", "n", "d", " ", "y", "o",
      "u", "r", " ", "r", "e", "p", "l", "y", " ", "w", "i", "t", "h", " ",
      "t", "h", "i", "s", " ", "e", "x", "a", "c", "t", " ", "f", "i", "n",
      "a", "l", " ", "l", "i", "n", "e", " ", "(", "v", "e", "r", "b", "a",
      "t", "i", "m", ",", " ", "o", "n", " ", "i", "t", "s", " ", "o", "w",
      "n", " ", "l", "i", "n", "e", ")", ":", "\n">>

Str_WrapCodexPrompt(message, reqID) ==
    Str_ReqIDPrefix \o <<" ">> \o reqID \o <<"\n", "\n">>
        \o TrimRight(message, {"\n", "\r", "\t", " "})
        \o WrapInstructions \o Str_DonePrefix \o <<" ">> \o reqID \o <<"\n">>

\* Request ids: one in the format of MakeReqID, one a client made up, and
\* the empty one.
RealID == <<"2", "0", "2", "6", "0", "1", "2", "5", "-", "1", "4", "3", "0", "0",
      "0", "-", "1", "2", "3", "-", "7">>
ShortID == <<"r", "1">>
ProtoReqIDs == {RealID, ShortID, <<>>}

\* What the texts of the model are made of.
Pieces ==
    {<<"\n">>, <<" ">>, <<"\r">>, <<"a">>, <<":">>,
     <<"C", "O", "D", "E", "X", "_", "D", "O", "N", "E">>,
     <<"C", "C", "B", "_", "D", "O", "N", "E">>,
     Str_DonePrefix \o <<" ">> \o RealID,
     Str_DonePrefix \o ShortID}

RECURSIVE Concats(_)
Concats(k) ==
    IF k = 0 THEN {<<>>}
    ELSE LET shorter == Concats(k - 1)
         IN shorter \cup {t \o p : t \in shorter, p \in Pieces}

\* The lines appended to a reply: tags, blank lines, and lines that are
\* neither.
ExtraLines ==
    {<<"C", "O", "D", "E", "X", "_", "D", "O", "N", "E">>,
     <<"A", "1", "_", "D", "O", "N", "E">>,
     <<>>, <<" ">>, <<"\n">>, <<"a">>,
     Str_DonePrefix \o <<" ">> \o RealID}

\* IsDoneText(text + "\n" + x, reqID)
CallIsDoneText(x) ==
    /\ pt.call = "none"
    /\ pt' = [pt EXCEPT !.call = "IsDoneText", !.extra = x,
                        !.done = Str_IsDoneText(pt.text \o <<"\n">> \o x,
                                                pt.reqID)]
    /\ UNCHANGED <<now, sendVars, lockVars, poolVars, lifeVars, regVars,
                   resolveVars, launchVars, readerVars, reverseVars,
                   reqidVars, pendVars, entVars, multiVars, twinVars,
                   pasteVars>>

\* StripDoneText(WrapCodexPrompt(text, reqID) + "\n" + "CCB_DONE: " + reqID,
\* reqID)
CallStripDoneText ==
    /\ pt.call = "none"
    /\ pt' = [pt EXCEPT !.call = "StripDoneText",
                        !.stripped =
                            Str_StripDoneText(
                                Str_WrapCodexPrompt(pt.text, pt.reqID)
                                    \o <<"\n">> \o Str_DonePrefix \o <<" ">>
                                    \o pt.reqID,
                                pt.reqID)]
    /\ UNCHANGED <<now, sendVars, lockVars, poolVars, lifeVars, regVars,
                   resolveVars, launchVars, readerVars, reverseVars,
                   reqidVars, pendVars, entVars, multiVars, twinVars,
                   pasteVars>>

\* No text at hand.
ProtoQuiet ==
    pt = [text |-> <<>>, reqID |-> <<>>, call |-> "none", extra |-> <<>>,
          done |-> FALSE, stripped |-> <<>>]

(***************************************************************************)
(* MakeReqID under a clock.                                                *)
(***************************************************************************)
ReqPids == {7, 8}

HalfMilli == Second \div 2000

\* now.Format("20060102-150405"), now.Nanosecond() / 1_000_000 and
\* os.Getpid(): the second, the millisecond within it, and the PID.
FormatReqID(t, pid) == <<t \div Second, (t % Second) \div 1000, pid>>

\* A call of MakeReqID in process pid.
CallMakeReqID(pid) ==
    /\ Len(issued) < MaxReqCalls
    /\ issued' = Append(issued, [pid |-> pid, id |-> FormatReqID(now, pid)])
    /\ UNCHANGED <<now, sendVars, lockVars, poolVars, lifeVars, regVars,
                   resolveVars, launchVars, readerVars, reverseVars, protoVars,
                   pendVars, entVars, multiVars, twinVars, pasteVars>>

\* Time passes between calls.
ReqClock ==
    /\ now < MaxReqClock * HalfMilli
    /\ now' = now + HalfMilli
    /\ UNCHANGED <<sendVars, lockVars, poolVars, lifeVars, regVars,
                   resolveVars, launchVars, readerVars, reverseVars, protoVars,
                   issued, pendVars, entVars, multiVars, twinVars, pasteVars>>

\* No request id issued.
ReqIDQuiet == issued = <<>>

(***************************************************************************)
(* The client's Ask: the response line decoded into a ProviderResult.      *)
(***************************************************************************)
\* json.Decoder.Decode into adapter.ProviderResult, then the AskResult:
\* exit_code is taken when the response has one and is 0 otherwise (the
\* object sendError writes has only status and error), error is copied.
AskDecode(resp) ==
    [ExitCode |-> IF resp.status = "result" THEN resp.exit ELSE 0,
     Error |-> resp.error]

(***************************************************************************)
(* CodexAdapter.lastReply under the workers of several sessions and the    *)
(* connection goroutines that call Pend.  The field is a string (pointer   *)
(* and length) that Send writes and Pend reads without a lock: a read or   *)
(* write that overlaps a write may see either value or a mix of the two.   *)
(***************************************************************************)
Senders == {1, 2}      \* session workers that run Send on the adapter

PendReplies == {<<>>, <<TextLine("42")>>, <<TextLine("43")>>}

Torn == <<TextLine("<pointer of one reply, length of another>")>>

\* What memory can hold, or a reader can see, when the strings a and b are
\* written or read at the same time.
Mixes(a, b) == IF a = b THEN {a} ELSE {a, b, Torn}

IdleSender == [pc |-> "idle", reply |-> <<>>]

Storing == {w \in Senders : senders[w].pc = "storing"}

\* A worker calls Send.
PendSendBegin(w) ==
    /\ senders[w].pc = "idle"
    /\ Len(sendLog) + Cardinality({v \in Senders : senders[v].pc # "idle"})
           < MaxSends
    /\ senders' = [senders EXCEPT ![w].pc = "running"]
    /\ UNCHANGED <<now, sessFiles, backend, paneAlive, logPath, log, paneInput,
                   req, send, lastReply, probedDead, lockVars, poolVars,
                   lifeVars, regVars, resolveVars, launchVars, readerVars,
                   reverseVars, protoVars, reqidVars, pend, sendLog, entVars,
                   multiVars, twinVars, pasteVars>>

\* Send returns a result with exit code 1 (no session, send failed) or 2
\* (WaitForReply failed).
PendSendFail(w, code) ==
    /\ senders[w].pc = "running"
    /\ senders' = [senders EXCEPT ![w] = IdleSender]
    /\ sendLog' = Append(sendLog, [ExitCode |-> code, Reply |-> <<>>])
    /\ UNCHANGED <<now, sessFiles, backend, paneAlive, logPath, log, paneInput,
                   req, send, lastReply, probedDead, lockVars, poolVars,
                   lifeVars, regVars, resolveVars, launchVars, readerVars,
                   reverseVars, protoVars, reqidVars, pend, entVars,
                   multiVars, twinVars, pasteVars>>

\* WaitForReply returned reply: Send starts the assignment
\* a.lastReply = reply.
PendSendStore(w, reply) ==
    /\ senders[w].pc = "running"
    /\ senders' = [senders EXCEPT ![w] = [pc |-> "storing", reply |-> reply]]
    /\ UNCHANGED <<now, sessFiles, backend, paneAlive, logPath, log, paneInput,
                   req, send, lastReply, probedDead, lockVars, poolVars,
                   lifeVars, regVars, resolveVars, launchVars, readerVars,
                   reverseVars, protoVars, reqidVars, pend, sendLog, entVars,
                   multiVars, twinVars, pasteVars>>

\* The assignment is complete and Send returns the result with exit code 0.
PendSendReturn(w) ==
    /\ senders[w].pc = "storing"
    /\ lastReply' \in UNION {Mixes(senders[w].reply, senders[v].reply) :
                                  v \in Storing}
    /\ senders' = [senders EXCEPT ![w] = IdleSender]
    /\ sendLog' = Append(sendLog, [ExitCode |-> 0, Reply |-> senders[w].reply])
    /\ UNCHANGED <<now, sessFiles, backend, paneAlive, logPath, log, paneInput,
                   req, send, probedDead, lockVars, poolVars,
                   lifeVars, regVars, resolveVars, launchVars, readerVars,
                   reverseVars, protoVars, reqidVars, pend, entVars,
                   multiVars, twinVars, pasteVars>>

\* What Pend returns for the value it read.
Pend(read) == IF read # <<>> THEN read ELSE <<>>

\* handlePend calls Pend on its connection goroutine.
CallPend ==
    /\ pend.calls < MaxPends
    /\ \E read \in {lastReply} \cup
                     UNION {Mixes(lastReply, senders[w].reply) : w \in Storing} :
          pend' = [calls |-> pend.calls + 1, out |-> Pend(read)]
    /\ UNCHANGED <<now, sendVars, lockVars, poolVars, lifeVars, regVars,
                   resolveVars, launchVars, readerVars, reverseVars, protoVars,
                   reqidVars, senders, sendLog, entVars, multiVars, twinVars,
                   pasteVars>>

\* An adapter nobody uses.
PendQuiet ==
    /\ senders = [w \in Senders |-> IdleSender]
    /\ pend = [calls |-> 0, out |-> <<>>]
    /\ sendLog = <<>>

(***************************************************************************)
(* PaneRegistry entries: Set, Upsert, PruneStalePanes and load with the    *)
(* migration of the legacy flat schema.  Providers is a map from           *)
(* <<provider, projectID>> to entries, times are Unix seconds, and         *)
(* saveLocked replaces the file in one step.                               *)
(***************************************************************************)
Day == 86400
registryTTL == 7 * Day
registryVersion == 2
WallStart == 10 * Day
StaleStamp == 2 * Day

EmptyMap == [x \in {} |-> 0]

Put(m, k, v) == [x \in DOMAIN m \cup {k} |-> IF x = k THEN v ELSE m[x]]

Without(m, gone) == [x \in DOMAIN m \ gone |-> m[x]]

EntKeys == {<<"codex", "p1">>, <<"gemini", "p2">>}

\* key(provider, projectID)
FlatKey(provider, projectID) == provider \o ":" \o projectID

\* strings.SplitN(k, ":", 2) for the flat keys of the model
SplitN2(k) ==
    CASE k = "codex:p1" -> <<"codex", "p1">>
      [] k = "gemini:p2" -> <<"gemini", "p2">>
      [] OTHER -> <<k>>

PaneEntry(paneID, updatedAt) == [PaneID |-> paneID, UpdatedAt |-> updatedAt]

\* The registry of NewPaneRegistry before load.
FreshData ==
    [Providers |-> EmptyMap, Version |-> registryVersion, Legacy |-> EmptyMap]

\* Registry files: none, a flat object of the legacy schema, or what
\* json.MarshalIndent(r.data) writes (the legacy bag is left out when
\* empty).
NoRegistryFile ==
    [kind |-> "absent", flat |-> EmptyMap, Providers |-> EmptyMap,
     Version |-> 0, Legacy |-> EmptyMap]

FlatFile(flat) == [NoRegistryFile EXCEPT !.kind = "flat", !.flat = flat]

MarshalRegistry(data) ==
    [kind |-> "nested", flat |-> EmptyMap, Providers |-> data.Providers,
     Version |-> data.Version, Legacy |-> data.Legacy]

\* migrateLegacyLocked: every flat key that splits in two at its first
\* colon becomes an entry; saved is whether saveLocked was reached.
MigrateLegacyLocked(data, t) ==
    IF DOMAIN data.Legacy = {} THEN [data |-> data, saved |-> FALSE]
    ELSE LET good == {k \in DOMAIN data.Legacy : Len(SplitN2(k)) = 2}
             promoted == [p \in {SplitN2(k) : k \in good} |->
                             PaneEntry(data.Legacy[FlatKey(p[1], p[2])], t)]
         IN [data |-> [Providers |->
                          [p \in DOMAIN data.Providers \cup DOMAIN promoted |->
                              IF p \in DOMAIN promoted THEN promoted[p]
                              ELSE data.Providers[p]],
                       Version |-> registryVersion, Legacy |-> EmptyMap],
             saved |-> TRUE]

\* load: the new format when the file has version >= 2, else the flat
\* format when every value of the object is a string, else nothing.
LoadRegistry(file, t) ==
    IF file.kind = "absent" THEN [data |-> FreshData, saved |-> FALSE]
    ELSE IF file.kind = "nested" /\ file.Version >= 2
    THEN [data |-> [Providers |-> file.Providers, Version |-> file.Version,
                    Legacy |-> file.Legacy],
          saved |-> FALSE]
    ELSE IF file.kind = "flat"
    THEN MigrateLegacyLocked([Providers |-> EmptyMap, Version |-> 1,
                              Legacy |-> file.flat], t)
    ELSE [data |-> FreshData, saved |-> FALSE]

\* Get(provider, projectID)
RegistryGet(data, provider, projectID) ==
    IF <<provider, projectID>> \in DOMAIN data.Providers
    THEN data.Providers[<<provider, projectID>>].PaneID
    ELSE IF FlatKey(provider, projectID) \in DOMAIN data.Legacy
    THEN data.Legacy[FlatKey(provider, projectID)]
    ELSE ""

\* NewPaneRegistry(path): a process opens the registry.
CallNewPaneRegistry ==
    /\ erRet.n < MaxEntOps
    /\ LET l == LoadRegistry(erFile, wall) IN
       /\ er' = [made |-> TRUE, data |-> l.data]
       /\ erFile' = IF l.saved THEN MarshalRegistry(l.data) ELSE erFile
    /\ erRet' = [op |-> "NewPaneRegistry", arg |-> 0, ret |-> 0, n |-> erRet.n + 1]
    /\ UNCHANGED <<now, sendVars, lockVars, poolVars, lifeVars, regVars,
                   resolveVars, launchVars, readerVars, reverseVars, protoVars,
                   reqidVars, pendVars, wall, multiVars, twinVars, pasteVars>>

\* Upsert: an entry without UpdatedAt gets the current time, any other
\* keeps the time it came with; then saveLocked.
UpsertEntry(data, k, entry, t) ==
    [data EXCEPT !.Providers =
        Put(@, k, IF entry.UpdatedAt = 0 THEN [entry EXCEPT !.UpdatedAt = t]
                  ELSE entry)]

CallUpsert(k, entry) ==
    /\ er.made /\ erRet.n < MaxEntOps
    /\ er' = [er EXCEPT !.data = UpsertEntry(@, k, entry, wall)]
    /\ erFile' = MarshalRegistry(er'.data)
    /\ erRet' = [op |-> "Upsert", arg |-> 0, ret |-> 0, n |-> erRet.n + 1]
    /\ UNCHANGED <<now, sendVars, lockVars, poolVars, lifeVars, regVars,
                   resolveVars, launchVars, readerVars, reverseVars, protoVars,
                   reqidVars, pendVars, wall, multiVars, twinVars, pasteVars>>

\* Set: Upsert of an entry stamped with the current time.
CallSet(k, paneID) ==
    /\ er.made /\ erRet.n < MaxEntOps
    /\ er' = [er EXCEPT !.data = UpsertEntry(@, k, PaneEntry(paneID, wall), wall)]
    /\ erFile' = MarshalRegistry(er'.data)
    /\ erRet' = [op |-> "Set", arg |-> 0, ret |-> 0, n |-> erRet.n + 1]
    /\ UNCHANGED <<now, sendVars, lockVars, poolVars, lifeVars, regVars,
                   resolveVars, launchVars, readerVars, reverseVars, protoVars,
                   reqidVars, pendVars, wall, multiVars, twinVars, pasteVars>>

\* A test that also removes the entry stamped exactly at the cutoff.
StaleAtCutoff(entry, cutoff) == entry.UpdatedAt > 0 /\ entry.UpdatedAt <= cutoff

\* PruneStalePanes, line 211
Stale(entry, cutoff) == entry.UpdatedAt > 0 /\ entry.UpdatedAt < cutoff

\* PruneStalePanes(ttl): the keys it deletes.
StaleKeys(data, ttl, t) ==
    LET cutoff == t - (IF ttl = 0 THEN registryTTL ELSE ttl)
    IN {k \in DOMAIN data.Providers : Stale(data.Providers[k], cutoff)}

CallPruneStalePanes(ttl) ==
    /\ er.made /\ erRet.n < MaxEntOps
    /\ LET gone == StaleKeys(er.data, ttl, wall) IN
       /\ er' = [er EXCEPT !.data.Providers = Without(@, gone)]
       /\ erFile' = IF Cardinality(gone) > 0 THEN MarshalRegistry(er'.data)
                    ELSE erFile
       /\ erRet' = [op |-> "PruneStalePanes", arg |-> ttl,
                    ret |-> Cardinality(gone), n |-> erRet.n + 1]
    /\ UNCHANGED <<now, sendVars, lockVars, poolVars, lifeVars, regVars,
                   resolveVars, launchVars, readerVars, reverseVars, protoVars,
                   reqidVars, pendVars, wall, multiVars, twinVars, pasteVars>>

\* A day passes.
WallTick ==
    /\ wall < WallStart + MaxDays * Day
    /\ wall' = wall + Day
    /\ UNCHANGED <<now, sendVars, lockVars, poolVars, lifeVars, regVars,
                   resolveVars, launchVars, readerVars, reverseVars, protoVars,
                   reqidVars, pendVars, er, erFile, erRet, multiVars,
                   twinVars, pasteVars>>

\* erRet holds the last call: its name, its argument (the ttl of
\* PruneStalePanes), its return value and its number.
\* No registry object and no registry file.
EntQuiet ==
    /\ wall = WallStart
    /\ er = [made |-> FALSE, data |-> FreshData]
    /\ erFile = NoRegistryFile
    /\ erRet = [op |-> "none", arg |-> 0, ret |-> 0, n |-> 0]

(***************************************************************************)
(* The Codex reply parser on characters: ReadReply and one turn of the     *)
(* WaitForReply loop over a log that holds the wrapped prompt as the pane  *)
(* echoed it, followed by what the provider wrote.                         *)
(***************************************************************************)
\* strings.Contains(s, sub)
Contains(s, sub) ==
    \E i \in 1..(Len(s) - Len(sub) + 1) : SubSeq(s, i, i + Len(sub) - 1) = sub

\* ReadReply's backward search for the anchor line; 0 when there is none.
RECURSIVE Str_LastAnchorIdx(_, _, _)
Str_LastAnchorIdx(lines, anchorPrefix, i) ==
    IF i = 0 THEN 0
    ELSE IF Contains(lines[i], anchorPrefix) THEN i
    ELSE Str_LastAnchorIdx(lines, anchorPrefix, i - 1)

\* ReadReply once the lines are read: the lines after the anchor, joined.
ReplyAfter(lines, anchorIdx) ==
    IF lines = <<>> \/ anchorIdx = 0 THEN <<>>
    ELSE Join(SubSeq(lines, anchorIdx + 1, Len(lines)))

ReplyOfLines(lines, anchorPrefix) ==
    ReplyAfter(lines, Str_LastAnchorIdx(lines, anchorPrefix, Len(lines)))

\* CodexCommunicator.ReadReply on a log with the given content.
Str_ReadReply(file, reqID) ==
    ReplyOfLines(ReverseReadLastLines(file, 0, TailLines),
                 Str_ReqIDPrefix \o <<" ">> \o reqID)

\* What WaitForReply makes of the reply it has read.
TurnOfReply(reply, done) ==
    [done |-> done, reply |-> IF done THEN reply ELSE <<>>]

\* One turn of the WaitForReply loop: whether it returns, and with what.
DoneReply(reply, reqID) ==
    IF reply # <<>> /\ Str_IsDoneText(reply, reqID)
    THEN TurnOfReply(Str_StripDoneText(reply, reqID), TRUE)
    ELSE TurnOfReply(<<>>, FALSE)

WaitTurn(file, reqID) == DoneReply(Str_ReadReply(file, reqID), reqID)

\* The provider's output after the echoed prompt: none, a reply that is
\* not finished, and a finished reply.
EchoOutputs(reqID) ==
    {<<>>, <<"4", "2", "\n">>,
     <<"4", "2", "\n">> \o Str_DonePrefix \o <<" ">> \o reqID \o <<"\n">>}

\* The call of WaitForReply has returned r for the output out.
Waited(out, r) ==
    pt' = [pt EXCEPT !.call = "WaitForReply", !.extra = out,
                     !.done = r.done, !.stripped = r.reply]

\* WaitForReply reads the log: the echoed prompt, then the output.
CallWaitForReply(out) ==
    /\ pt.call = "none"
    /\ Waited(out, WaitTurn(Str_WrapCodexPrompt(pt.text, pt.reqID) \o out, pt.reqID))
    /\ UNCHANGED <<now, sendVars, lockVars, poolVars, lifeVars, regVars,
                   resolveVars, launchVars, readerVars, reverseVars,
                   reqidVars, pendVars, entVars, multiVars, twinVars,
                   pasteVars>>

(***************************************************************************)
(* Several launcher processes and one registry file: each registerSession  *)
(* makes a PaneRegistry of its own (NewPaneRegistry loads the file) and    *)
(* calls Upsert on it (saveLocked writes that instance's data).  The       *)
(* mutex of a PaneRegistry is per instance, and no file lock is taken.     *)
(***************************************************************************)
Launchers == 1..NumLaunchers

\* The key process i registers: its provider, in the project "p1".
LauncherProvider(i) ==
    CASE i = 1 -> "codex" [] i = 2 -> "gemini" [] i = 3 -> "claude"
      [] OTHER -> "droid"

LauncherKey(i) == <<LauncherProvider(i), "p1">>

IdleLauncher == [pc |-> "idle", data |-> FreshData]

\* registerSession, line 284: session.NewPaneRegistry(registryPath)
LauncherNew(i) ==
    /\ prs[i].pc = "idle"
    /\ LET l == LoadRegistry(erFile, wall) IN
       /\ prs' = [prs EXCEPT ![i] = [pc |-> "made", data |-> l.data]]
       /\ erFile' = IF l.saved THEN MarshalRegistry(l.data) ELSE erFile
    /\ UNCHANGED <<now, sendVars, lockVars, poolVars, lifeVars, regVars,
                   resolveVars, launchVars, readerVars, reverseVars, protoVars,
                   reqidVars, pendVars, wall, er, erRet, twinVars, pasteVars>>

\* registerSession, lines 286-289: registry.Upsert(provider, projectID,
\* &PaneEntry{PaneID, WorkDir}), with its saveLocked.
LauncherUpsert(i) ==
    /\ prs[i].pc = "made"
    /\ LET data == UpsertEntry(prs[i].data, LauncherKey(i),
                               PaneEntry("%5", 0), wall) IN
       /\ prs' = [prs EXCEPT ![i] = [pc |-> "done", data |-> data]]
       /\ erFile' = MarshalRegistry(data)
    /\ UNCHANGED <<now, sendVars, lockVars, poolVars, lifeVars, regVars,
                   resolveVars, launchVars, readerVars, reverseVars, protoVars,
                   reqidVars, pendVars, wall, er, erRet, twinVars, pasteVars>>

\* The launcher process ends; the next one takes its place.
LauncherExit(i) ==
    /\ prs[i].pc = "done"
    /\ prs' = [prs EXCEPT ![i] = IdleLauncher]
    /\ UNCHANGED <<now, sendVars, lockVars, poolVars, lifeVars, regVars,
                   resolveVars, launchVars, readerVars, reverseVars, protoVars,
                   reqidVars, pendVars, entVars, twinVars, pasteVars>>

\* No launcher.
MultiQuiet == prs = [i \in Launchers |-> IdleLauncher]

(***************************************************************************)
(* Several daemons and one state file.  A client starts a daemon when it   *)
(* finds no state file or cannot ping the daemon the file names; Start     *)
(* listens on a port of its own (port 0) and writes the state file;        *)
(* Shutdown removes it.  Daemon i has PID i.                               *)
(***************************************************************************)
Daemons == 1..NumDaemons

\* PingDaemon(state): the daemon the state file names answers.
PingOK(pid) == pid # 0 /\ dm[pid] = "running"

\* client.MaybeStartDaemon of the client that would start daemon i:
\* ReadState fails or PingDaemon gets no answer, so it goes on to
\* MaybeStartDaemonDetached.
ClientFindsNoDaemon(i) ==
    /\ dm[i] = "none"
    /\ ~PingOK(sf)
    /\ dm' = [dm EXCEPT ![i] = "wanted"]
    /\ UNCHANGED <<now, sendVars, lockVars, poolVars, lifeVars, regVars,
                   resolveVars, launchVars, readerVars, reverseVars, protoVars,
                   reqidVars, pendVars, entVars, multiVars, sf, pasteVars>>

\* MaybeStartDaemonDetached: cmd.Start() of the daemon process.
ClientStartsDaemon(i) ==
    /\ dm[i] = "wanted"
    /\ dm' = [dm EXCEPT ![i] = "spawned"]
    /\ UNCHANGED <<now, sendVars, lockVars, poolVars, lifeVars, regVars,
                   resolveVars, launchVars, readerVars, reverseVars, protoVars,
                   reqidVars, pendVars, entVars, multiVars, sf, pasteVars>>

\* Server.Start of daemon i: net.Listen, then writeState.
DaemonStart(i) ==
    /\ dm[i] = "spawned"
    /\ dm' = [dm EXCEPT ![i] = "running"]
    /\ sf' = i
    /\ UNCHANGED <<now, sendVars, lockVars, poolVars, lifeVars, regVars,
                   resolveVars, launchVars, readerVars, reverseVars, protoVars,
                   reqidVars, pendVars, entVars, multiVars, pasteVars>>

\* removeState: os.Remove(s.stateFile)
RemoveState(file, pid) == 0

\* Server.Shutdown of daemon i, whatever triggered it, up to the end of
\* the process.
DaemonShutdown(i) ==
    /\ dm[i] = "running"
    /\ dm' = [dm EXCEPT ![i] = "exited"]
    /\ sf' = RemoveState(sf, i)
    /\ UNCHANGED <<now, sendVars, lockVars, poolVars, lifeVars, regVars,
                   resolveVars, launchVars, readerVars, reverseVars, protoVars,
                   reqidVars, pendVars, entVars, multiVars, pasteVars>>

\* No daemon and no state file.
TwinQuiet == dm = [i \in Daemons |-> "none"] /\ sf = 0

(***************************************************************************)
(* TmuxBackend.SendKeys with a multi-line text (sendBracketedPaste).  Call *)
(* i is made by the worker of session i: its pane is pane i and its text   *)
(* is text i.  The temp file is named after the PID of the daemon, so all  *)
(* calls of a daemon share it, and load-buffer and paste-buffer name no    *)
(* buffer, so they work on the newest buffer of the tmux server.           *)
(***************************************************************************)
Pasters == 1..NumPasters

\* os.WriteFile(tmpFile, []byte(text), 0600)
PasteWrite(i) ==
    /\ ps[i] = "idle"
    /\ tmpf' = i
    /\ ps' = [ps EXCEPT ![i] = "written"]
    /\ UNCHANGED <<now, sendVars, lockVars, poolVars, lifeVars, regVars,
                   resolveVars, launchVars, readerVars, reverseVars, protoVars,
                   reqidVars, pendVars, entVars, multiVars, twinVars,
                   bufs, pasted>>

\* tmux load-buffer tmpFile; when the file is gone the call falls back to
\* send-keys with the text itself and returns through the deferred
\* os.Remove.
PasteLoad(i) ==
    /\ ps[i] = "written"
    /\ IF tmpf = 0
       THEN /\ pasted' = [pasted EXCEPT ![i] = Append(@, i)]
            /\ ps' = [ps EXCEPT ![i] = "done"]
            /\ UNCHANGED <<tmpf, bufs>>
       ELSE /\ bufs' = Append(bufs, tmpf)
            /\ ps' = [ps EXCEPT ![i] = "loaded"]
            /\ UNCHANGED <<tmpf, pasted>>
    /\ UNCHANGED <<now, sendVars, lockVars, poolVars, lifeVars, regVars,
                   resolveVars, launchVars, readerVars, reverseVars, protoVars,
                   reqidVars, pendVars, entVars, multiVars, twinVars>>

\* tmux paste-buffer -t paneID -d: the newest buffer is pasted and
\* deleted; with no buffer the command fails and the call returns the
\* error through the deferred os.Remove.
PastePaste(i) ==
    /\ ps[i] = "loaded"
    /\ IF bufs = <<>>
       THEN /\ ps' = [ps EXCEPT ![i] = "done"]
            /\ tmpf' = 0
            /\ UNCHANGED <<bufs, pasted>>
       ELSE /\ pasted' = [pasted EXCEPT ![i] = Append(@, bufs[Len(bufs)])]
            /\ bufs' = SubSeq(bufs, 1, Len(bufs) - 1)
            /\ ps' = [ps EXCEPT ![i] = "pasted"]
            /\ UNCHANGED tmpf
    /\ UNCHANGED <<now, sendVars, lockVars, poolVars, lifeVars, regVars,
                   resolveVars, launchVars, readerVars, reverseVars, protoVars,
                   reqidVars, pendVars, entVars, multiVars, twinVars>>

\* tmux send-keys -t paneID Enter, and the deferred os.Remove(tmpFile).
PasteEnter(i) ==
    /\ ps[i] = "pasted"
    /\ ps' = [ps EXCEPT ![i] = "done"]
    /\ tmpf' = 0
    /\ UNCHANGED <<now, sendVars, lockVars, poolVars, lifeVars, regVars,
                   resolveVars, launchVars, readerVars, reverseVars, protoVars,
                   reqidVars, pendVars, entVars, multiVars, twinVars,
                   bufs, pasted>>

\* No SendKeys call, no temp file, no paste buffer.
PasteQuiet ==
    /\ ps = [i \in Pasters |-> "idle"]
    /\ tmpf = 0
    /\ bufs = <<>>
    /\ pasted = [i \in Pasters |-> <<>>]

(***************************************************************************)
(* Initial states and specifications.                                      *)
(***************************************************************************)
\* The session files a work directory can hold.
SessionLayouts ==
    { [cfg |-> Absent, legacy |-> Absent],
      [cfg |-> "\n", legacy |-> "%10\n"],
      [cfg |-> "%10\n", legacy |-> Absent],
      [cfg |-> Absent, legacy |-> "%10"] }

TimeoutChoices == {1, 3}

\* The message ends in a newline that WrapCodexPrompt trims.
Message == <<TextLine("what is 6*7"), EmptyLine>>

SendQuiet ==
    /\ sessFiles = [cfg |-> Absent, legacy |-> Absent]
    /\ backend = "nil"
    /\ paneAlive = {}
    /\ logPath = ""
    /\ log = <<>>
    /\ paneInput = <<>>
    /\ req = [WorkDir |-> "w1", Message |-> <<>>, ReqID |-> "", TimeoutS |-> 0,
              CtxDeadline |-> 0]
    /\ send = IdleSend
    /\ lastReply = <<>>
    /\ probedDead = FALSE

LockQuiet ==
    /\ fs = [path |-> 0, next |-> 1, content |-> [i \in Inodes |-> 0],
             flock |-> [i \in Inodes |-> 0]]
    /\ locks = [p \in Procs |-> IdleLock]
    /\ procAlive = Procs

\* The daemon after Start, with no parent to watch.
LifeQuiet ==
    /\ daemonCfg = [IdleTimeout |-> 1800 * Second, ParentPID |-> 0,
                    goos |-> "linux"]
    /\ parentAlive = TRUE
    /\ boot = [pc |-> "started", idle |-> "on", idleNext |-> IdleTick,
               parent |-> "off", parentNext |-> ParentTick]
    /\ stateDoc = StateJSON
    /\ lastRead = "none"

\* A registry nobody uses.
RegQuiet ==
    /\ regData = {}
    /\ regMu = 0
    /\ regFs = [f \in {"path", "tmp"} |-> NoFile]
    /\ regW = [w \in Upserters |-> IdleUpsert]
    /\ regProc = "running"

\* No call of Resolve.
ResolveQuiet ==
    /\ rsIn = [CCB_SESSION_ID |-> "", TMUX_PANE |-> "", WEZTERM_PANE |-> "",
               registry |-> <<"nil">>, backend |-> <<"nil">>,
               files |-> [cfg |-> Absent, legacy |-> Absent],
               fallback |-> "nil"]
    /\ rsOut = NotCalled

\* No launch and no EnsurePane call.
LaunchQuiet == launched = "" /\ ensured = <<"none">>

\* An empty file and a new reader.
ReaderQuiet == tailed = <<>> /\ rd = NewLogReader

PoolQuiet ==
    /\ conn = [c \in Conns |-> FreshConn]
    /\ lastActive = 0
    /\ workers = [k \in SessionKeys |-> 0]
    /\ wk = [w \in WorkerIds |-> NoWorker]
    /\ srv = [proc |-> "running", main |-> "select", listener |-> TRUE,
              shutdownClosed |-> FALSE, sdpc |-> "none",
              rpcPending |-> 0, why |-> ""]

\* The daemon after Start.
Init == now = 0 /\ PoolQuiet /\ SendQuiet /\ LockQuiet /\ LifeQuiet /\ RegQuiet /\ ResolveQuiet /\ LaunchQuiet /\ ReaderQuiet /\ PasteQuiet /\ TwinQuiet /\ MultiQuiet /\ EntQuiet /\ PendQuiet /\ ReqIDQuiet /\ ProtoQuiet /\ ReverseQuiet

Next ==
    \/ \E c \in ServerConns : Accept(c)
    \/ \E c \in Conns, r \in Requests : HandleConn(c, r)
    \/ \E c \in Conns : SubmitSend(c)
    \/ \E w \in WorkerIds : WorkerTake(w)
    \/ \E w \in WorkerIds : WorkerExit(w)
    \/ \E c \in Conns, res \in SendOutcomes : HandlerFinish(c, res)
    \/ \E c \in Conns : ConnResult(c)
    \/ \E c \in Conns : ConnTimeout(c)
    \/ RpcShutdown
    \/ SignalShutdown
    \/ ShutdownPool
    \/ ShutdownState
    \/ ProcessExit
    \/ Tick

Spec == Init /\ [][Next]_vars

\* The worker pool on its own, driven by callers of Submit and Shutdown.
NextPool ==
    \/ \E c \in Conns, key \in SessionKeys : Submit(c, key)
    \/ \E c \in Conns : SubmitSend(c)
    \/ \E w \in WorkerIds : WorkerTake(w)
    \/ \E w \in WorkerIds : WorkerExit(w)
    \/ \E c \in Conns, res \in SendOutcomes : HandlerFinish(c, res)
    \/ PoolShutdown

SpecPool == Init /\ [][NextPool]_vars

\* One Send call of the Codex adapter, run by the handler of a request
\* that handleRequest built at time 0.
InitSend ==
    /\ now = 0
    /\ PoolQuiet /\ LockQuiet /\ LifeQuiet /\ RegQuiet /\ ResolveQuiet /\ LaunchQuiet /\ ReaderQuiet /\ PasteQuiet /\ TwinQuiet /\ MultiQuiet /\ EntQuiet /\ PendQuiet /\ ReqIDQuiet /\ ProtoQuiet /\ ReverseQuiet
    /\ sessFiles \in SessionLayouts
    /\ backend \in {"nil", "tmux"}
    /\ paneAlive \in {{}, {"%10"}}
    /\ logPath \in {"", "output.log"}
    /\ log = <<>>
    /\ paneInput = <<>>
    /\ \E rid \in {"", "r1"}, t \in TimeoutChoices :
          req = [WorkDir |-> "w1", Message |-> Message, ReqID |-> rid,
                 TimeoutS |-> t, CtxDeadline |-> (t + 10) * Second]
    /\ send = IdleSend
    /\ lastReply = <<>>
    /\ probedDead = FALSE

NextSend == SendStart \/ WaitForReply \/ ProviderWrites \/ PaneDies

SpecSend == InitSend /\ [][NextSend]_vars

\* One Send call for a request that carries no timeout_s: getFloat gives
\* 0, so handleRequest bounds the context by 0 + 10 seconds.
InitDefault ==
    /\ now = 0
    /\ PoolQuiet /\ LockQuiet /\ LifeQuiet /\ RegQuiet /\ ResolveQuiet /\ LaunchQuiet /\ ReaderQuiet /\ PasteQuiet /\ TwinQuiet /\ MultiQuiet /\ EntQuiet /\ PendQuiet /\ ReqIDQuiet /\ ProtoQuiet /\ ReverseQuiet
    /\ sessFiles \in SessionLayouts
    /\ backend = "tmux"
    /\ paneAlive = {"%10"}
    /\ logPath \in {"", "output.log"}
    /\ log = <<>>
    /\ paneInput = <<>>
    /\ req = [WorkDir |-> "w1", Message |-> Message, ReqID |-> "r1",
              TimeoutS |-> 0, CtxDeadline |-> (0 + 10) * Second]
    /\ send = IdleSend
    /\ lastReply = <<>>
    /\ probedDead = FALSE

SpecDefault == InitDefault /\ [][NextSend]_vars

\* The daemon from NewServer on: Start, clients that ping it or read its
\* state file, and a shutdown by signal.
LifeRequests == {Req("ping", "", ""), [Req("ping", "", "") EXCEPT !.token = "bad"]}

FreshServer ==
    /\ conn = [c \in Conns |-> FreshConn]
    /\ lastActive = 0
    /\ workers = [k \in SessionKeys |-> 0]
    /\ wk = [w \in WorkerIds |-> NoWorker]
    /\ srv = [proc |-> "running", main |-> "select", listener |-> FALSE,
              shutdownClosed |-> FALSE, sdpc |-> "none", rpcPending |-> 0, why |-> ""]

InitStart ==
    /\ now = 0
    /\ SendQuiet /\ LockQuiet /\ FreshServer /\ RegQuiet /\ ResolveQuiet /\ LaunchQuiet /\ ReaderQuiet /\ PasteQuiet /\ TwinQuiet /\ MultiQuiet /\ EntQuiet /\ PendQuiet /\ ReqIDQuiet /\ ProtoQuiet /\ ReverseQuiet
    /\ daemonCfg = [IdleTimeout |-> 1800 * Second, ParentPID |-> 0,
                    goos |-> "linux"]
    /\ parentAlive = TRUE
    /\ boot = [pc |-> "new", idle |-> "off", idleNext |-> 0,
               parent |-> "off", parentNext |-> 0]
    /\ stateDoc = Absent
    /\ lastRead = "none"

NextStart ==
    \/ StartListen
    \/ WriteStateOpen
    \/ WriteStateWrite
    \/ StartMonitors
    \/ ClientReadState
    \/ \E c \in ServerConns : Accept(c)
    \/ \E c \in ServerConns, r \in LifeRequests : HandleConn(c, r)
    \/ SignalShutdown
    \/ ShutdownPool
    \/ ShutdownState
    \/ ProcessExit

SpecStart == InitStart /\ [][NextStart]_vars

\* The started daemon under its two monitors, with clients that ping it.
IdleTimeouts == {30 * Second, 50 * Second}

InitLife ==
    /\ now = 0
    /\ SendQuiet /\ LockQuiet /\ PoolQuiet /\ RegQuiet /\ ResolveQuiet /\ LaunchQuiet /\ ReaderQuiet /\ PasteQuiet /\ TwinQuiet /\ MultiQuiet /\ EntQuiet /\ PendQuiet /\ ReqIDQuiet /\ ProtoQuiet /\ ReverseQuiet
    /\ daemonCfg \in [IdleTimeout : IdleTimeouts, ParentPID : {0, 7},
                      goos : {"linux", "windows"}]
    /\ parentAlive = TRUE
    /\ boot = [pc |-> "started", idle |-> "on", idleNext |-> IdleTick,
               parent |-> IF daemonCfg.ParentPID > 0 THEN "on" ELSE "off",
               parentNext |-> ParentTick]
    /\ stateDoc = StateJSON
    /\ lastRead = "none"

NextLife ==
    \/ \E c \in ServerConns : Accept(c)
    \/ \E c \in ServerConns, r \in LifeRequests : HandleConn(c, r)
    \/ IdleMonitor
    \/ ParentMonitor
    \/ ParentExits
    \/ ShutdownPool
    \/ ShutdownState
    \/ ProcessExit
    \/ LifeClock

SpecLife == InitLife /\ [][NextLife]_vars

\* One PaneRegistry used by several goroutines of a process that can be
\* killed; the registry file is absent at first or holds an older entry.
InitRegistry ==
    /\ now = 0
    /\ SendQuiet /\ LockQuiet /\ PoolQuiet /\ LifeQuiet /\ ResolveQuiet /\ LaunchQuiet /\ ReaderQuiet /\ PasteQuiet /\ TwinQuiet /\ MultiQuiet /\ EntQuiet /\ PendQuiet /\ ReqIDQuiet /\ ProtoQuiet /\ ReverseQuiet
    /\ regFs \in {[f \in {"path", "tmp"} |-> NoFile],
                   [f \in {"path", "tmp"} |->
                       IF f = "path" THEN WrittenFile({0}) ELSE NoFile]}
    /\ regData = RegLoad(regFs["path"])
    /\ regMu = 0
    /\ regW = [w \in Upserters |-> IdleUpsert]
    /\ regProc = "running"

NextRegistry ==
    \/ \E w \in Upserters : UpsertLock(w)
    \/ \E w \in Upserters : UpsertStore(w)
    \/ \E w \in Upserters : SaveOpen(w)
    \/ \E w \in Upserters : SaveWrite(w)
    \/ \E w \in Upserters : SaveRename(w)
    \/ \E w \in Upserters : UpsertReturn(w)
    \/ RegCrash
    \/ RegRestart

SpecRegistry == InitRegistry /\ [][NextRegistry]_vars

\* Resolve called in every environment of a small universe.
InitResolve ==
    /\ now = 0
    /\ SendQuiet /\ LockQuiet /\ PoolQuiet /\ LifeQuiet /\ RegQuiet
    /\ LaunchQuiet /\ ReaderQuiet /\ PasteQuiet /\ TwinQuiet /\ MultiQuiet /\ EntQuiet /\ PendQuiet /\ ReqIDQuiet /\ ProtoQuiet /\ ReverseQuiet
    /\ rsIn \in [CCB_SESSION_ID : {"", " ", "s1"},
                  TMUX_PANE : {"", "%9"},
                  WEZTERM_PANE : {"", "%9"},
                  registry : Registries,
                  backend : {<<"nil">>, <<"tmux", {}>>, <<"tmux", {"%1"}>>,
                             <<"tmux", {"%1", "%2"}>>},
                  files : SessionLayouts,
                  fallback : {"nil", "err", "info"}]
    /\ rsOut = NotCalled

NextResolve == CallResolve

SpecResolve == InitResolve /\ [][NextResolve]_vars

\* A launch that registers a Codex pane in a work directory whose session
\* files are absent, bare pane ids or a JSON session, followed by Send and
\* EnsurePane of the daemon's adapter.
LaunchLayouts ==
    [cfg : {Absent, "%10\n", SessionJSON("%11")}, legacy : {Absent, "%10"}]

InitLaunch ==
    /\ now = 0
    /\ PoolQuiet /\ LockQuiet /\ LifeQuiet /\ RegQuiet /\ ResolveQuiet
    /\ LaunchQuiet /\ ReaderQuiet /\ PasteQuiet /\ TwinQuiet /\ MultiQuiet /\ EntQuiet /\ PendQuiet /\ ReqIDQuiet /\ ProtoQuiet /\ ReverseQuiet
    /\ sessFiles \in LaunchLayouts
    /\ backend = "tmux"
    /\ paneAlive \in SUBSET LaunchPanes
    /\ logPath \in {"", "output.log"}
    /\ log = <<>>
    /\ paneInput = <<>>
    /\ req = [WorkDir |-> "w1", Message |-> Message, ReqID |-> "r1",
              TimeoutS |-> 1, CtxDeadline |-> (1 + 10) * Second]
    /\ send = IdleSend
    /\ lastReply = <<>>
    /\ probedDead = FALSE

NextLaunch ==
    \/ \E p \in LaunchPanes : RegisterSession(p)
    \/ SendStart
    \/ EnsurePane

SpecLaunch == InitLaunch /\ [][NextLaunch]_vars

\* A LogReader on a file that writers append to, a character at a time.
InitReader ==
    /\ now = 0
    /\ SendQuiet /\ LockQuiet /\ PoolQuiet /\ LifeQuiet /\ RegQuiet
    /\ ResolveQuiet /\ LaunchQuiet /\ ReaderQuiet /\ PasteQuiet /\ TwinQuiet /\ MultiQuiet /\ EntQuiet /\ PendQuiet /\ ReqIDQuiet /\ ProtoQuiet /\ ReverseQuiet

NextReader ==
    \/ \E c \in Chars : AppendChar(c)
    \/ CallReadNew

SpecReader == InitReader /\ [][NextReader]_vars

\* Processes contending for one provider lock file.
InitLock == now = 0 /\ PoolQuiet /\ SendQuiet /\ LockQuiet /\ LifeQuiet /\ RegQuiet /\ ResolveQuiet /\ LaunchQuiet /\ ReaderQuiet /\ PasteQuiet /\ TwinQuiet /\ MultiQuiet /\ EntQuiet /\ PendQuiet /\ ReqIDQuiet /\ ProtoQuiet /\ ReverseQuiet

NextLock ==
    \/ \E p \in Procs, mode \in {"try", "acq"} : LockBegin(p, mode)
    \/ \E p \in Procs : LockFlock(p)
    \/ \E p \in Procs : LockWritePID(p)
    \/ \E p \in Procs : LockCheckStale(p)
    \/ \E p \in Procs : LockRemoveReopen(p)
    \/ \E p \in Procs : LockTimeout(p)
    \/ \E p \in Procs : LockRelease(p)
    \/ \E p \in Procs : ProcExit(p)

SpecLock == InitLock /\ [][NextLock]_vars

RECURSIVE SeqsUpTo(_, _)
SeqsUpTo(S, k) ==
    IF k = 0 THEN {<<>>}
    ELSE LET shorter == SeqsUpTo(S, k - 1)
         IN shorter \cup {Append(q, c) : q \in shorter, c \in S}

\* ReadLastLines on every small file, with every small chunk size (0: the
\* default) and every small n.
InitReverse ==
    /\ now = 0
    /\ SendQuiet /\ LockQuiet /\ PoolQuiet /\ LifeQuiet /\ RegQuiet
    /\ ResolveQuiet /\ LaunchQuiet /\ ReaderQuiet /\ PasteQuiet /\ TwinQuiet /\ MultiQuiet /\ EntQuiet /\ PendQuiet /\ ReqIDQuiet /\ ProtoQuiet
    /\ rv \in [file : SeqsUpTo(Chars, MaxRevFile), ChunkSize : 0..MaxChunk,
               n : 0..MaxWanted, called : {FALSE}, out : {<<>>}]

NextReverse == CallReadLastLines

SpecReverse == InitReverse /\ [][NextReverse]_vars

\* The marker library on every small text and request id.
InitProto ==
    /\ now = 0
    /\ SendQuiet /\ LockQuiet /\ PoolQuiet /\ LifeQuiet /\ RegQuiet
    /\ ResolveQuiet /\ LaunchQuiet /\ ReaderQuiet /\ PasteQuiet /\ TwinQuiet /\ MultiQuiet /\ EntQuiet /\ PendQuiet /\ ReqIDQuiet /\ ReverseQuiet
    /\ pt \in [text : Concats(MaxPieces), reqID : ProtoReqIDs, call : {"none"},
               extra : {<<>>}, done : {FALSE}, stripped : {<<>>}]

NextProto ==
    \/ \E x \in ExtraLines : CallIsDoneText(x)
    \/ CallStripDoneText

SpecProto == InitProto /\ [][NextProto]_vars

\* Two processes that call MakeReqID while time passes.
InitReqID ==
    /\ now = 0
    /\ SendQuiet /\ LockQuiet /\ PoolQuiet /\ LifeQuiet /\ RegQuiet
    /\ ResolveQuiet /\ LaunchQuiet /\ ReaderQuiet /\ PasteQuiet /\ TwinQuiet /\ MultiQuiet /\ EntQuiet /\ PendQuiet /\ ReverseQuiet
    /\ ProtoQuiet /\ ReqIDQuiet

NextReqID ==
    \/ \E pid \in ReqPids : CallMakeReqID(pid)
    \/ ReqClock

SpecReqID == InitReqID /\ [][NextReqID]_vars

\* The started daemon and clients whose requests lack a field: getStr
\* gives "" for a key that is absent.
FieldRequests ==
    { Req("request", "codex", "w1"),
      Req("request", "", "w1"),
      Req("request", "codex", ""),
      [Req("request", "codex", "w1") EXCEPT !.message = ""] }

NextFields ==
    \/ \E c \in ServerConns : Accept(c)
    \/ \E c \in ServerConns, r \in FieldRequests : HandleConn(c, r)
    \/ \E c \in Conns : SubmitSend(c)
    \/ \E w \in WorkerIds : WorkerTake(w)
    \/ \E c \in Conns, res \in SendOutcomes : HandlerFinish(c, res)
    \/ \E c \in Conns : ConnResult(c)

SpecFields == Init /\ [][NextFields]_vars

\* One adapter, the workers that run Send on it and the callers of Pend.
NextPend ==
    \/ \E w \in Senders : PendSendBegin(w)
    \/ \E w \in Senders, code \in {1, 2} : PendSendFail(w, code)
    \/ \E w \in Senders, reply \in PendReplies : PendSendStore(w, reply)
    \/ \E w \in Senders : PendSendReturn(w)
    \/ CallPend

SpecPend == Init /\ [][NextPend]_vars

\* The registry files a process can find: none, flat files of the legacy
\* schema (one of them empty, one with a key that has no colon) and files
\* of the nested schema, one with an entry that has no updated_at.
EntFiles ==
    { NoRegistryFile,
      FlatFile(EmptyMap),
      FlatFile([k \in {"codex:p1"} |-> "%1"]),
      FlatFile([k \in {"codex:p1", "gemini:p2", "bare"} |->
                   IF k = "codex:p1" THEN "%1" ELSE "%2"]),
      MarshalRegistry([FreshData EXCEPT !.Providers =
          [k \in {<<"codex", "p1">>} |-> PaneEntry("%1", 0)]]),
      MarshalRegistry([FreshData EXCEPT !.Providers =
          [k \in EntKeys |-> IF k[1] = "codex" THEN PaneEntry("%1", StaleStamp)
                             ELSE PaneEntry("%2", WallStart)]]) }

\* What callers hand to Upsert: no time stamp, or one of their own.
UpsertEntries == {PaneEntry("%6", 0), PaneEntry("%6", StaleStamp)}

InitEntries ==
    /\ now = 0
    /\ SendQuiet /\ LockQuiet /\ PoolQuiet /\ LifeQuiet /\ RegQuiet
    /\ ResolveQuiet /\ LaunchQuiet /\ ReaderQuiet /\ PasteQuiet /\ TwinQuiet /\ MultiQuiet /\ ReverseQuiet
    /\ ProtoQuiet /\ ReqIDQuiet /\ PendQuiet
    /\ wall = WallStart
    /\ er = [made |-> FALSE, data |-> FreshData]
    /\ erFile \in EntFiles
    /\ erRet = [op |-> "none", arg |-> 0, ret |-> 0, n |-> 0]

NextEntries ==
    \/ CallNewPaneRegistry
    \/ \E k \in EntKeys, entry \in UpsertEntries : CallUpsert(k, entry)
    \/ \E k \in EntKeys : CallSet(k, "%5")
    \/ \E ttl \in {0, Day} : CallPruneStalePanes(ttl)
    \/ WallTick

SpecEntries == InitEntries /\ [][NextEntries]_vars

\* A prompt made of a message and a request id, as Send wraps it; Send
\* never passes an empty request id on.
InitEcho ==
    /\ now = 0
    /\ SendQuiet /\ LockQuiet /\ PoolQuiet /\ LifeQuiet /\ RegQuiet
    /\ ResolveQuiet /\ LaunchQuiet /\ ReaderQuiet /\ PasteQuiet /\ TwinQuiet /\ MultiQuiet /\ EntQuiet /\ PendQuiet
    /\ ReqIDQuiet /\ ReverseQuiet
    /\ pt \in [text : Concats(MaxEchoPieces), reqID : {RealID, ShortID},
               call : {"none"}, extra : {<<>>}, done : {FALSE},
               stripped : {<<>>}]

NextEcho == \E out \in EchoOutputs(pt.reqID) : CallWaitForReply(out)

SpecEcho == InitEcho /\ [][NextEcho]_vars

\* The requests of a daemon with a short idle timeout: one with the
\* client's default timeout_s of 120, one with timeout_s 1.
BusyRequests ==
    { [Req("request", "codex", "w1") EXCEPT !.timeoutS = 120],
      Req("request", "codex", "w1") }

\* The daemon after Start with its idle monitor, serving requests.
InitBusy ==
    /\ now = 0
    /\ SendQuiet /\ LockQuiet /\ PoolQuiet /\ RegQuiet /\ ResolveQuiet
    /\ LaunchQuiet /\ ReaderQuiet /\ PasteQuiet /\ TwinQuiet /\ MultiQuiet /\ EntQuiet /\ PendQuiet /\ ReqIDQuiet
    /\ ProtoQuiet /\ ReverseQuiet
    /\ daemonCfg \in [IdleTimeout : IdleTimeouts, ParentPID : {0},
                      goos : {"linux"}]
    /\ parentAlive = TRUE
    /\ boot = [pc |-> "started", idle |-> "on", idleNext |-> IdleTick,
               parent |-> "off", parentNext |-> ParentTick]
    /\ stateDoc = StateJSON
    /\ lastRead = "none"

NextBusy ==
    \/ \E c \in ServerConns : Accept(c)
    \/ \E c \in ServerConns, r \in BusyRequests : HandleConn(c, r)
    \/ \E c \in ServerConns : SubmitSend(c)
    \/ \E w \in WorkerIds : WorkerTake(w)
    \/ \E w \in WorkerIds : WorkerExit(w)
    \/ \E c \in ServerConns, res \in SendOutcomes : HandlerFinish(c, res)
    \/ \E c \in ServerConns : ConnResult(c)
    \/ \E c \in ServerConns : ConnTimeout(c)
    \/ IdleMonitor
    \/ ShutdownPool
    \/ ShutdownState
    \/ ProcessExit
    \/ LifeClock

SpecBusy == InitBusy /\ [][NextBusy]_vars

\* Launchers that start with no registry file, or with one that holds the
\* entry of an earlier session.
InitMulti ==
    /\ now = 0
    /\ SendQuiet /\ LockQuiet /\ PoolQuiet /\ LifeQuiet /\ RegQuiet
    /\ ResolveQuiet /\ LaunchQuiet /\ ReaderQuiet /\ PasteQuiet /\ TwinQuiet /\ ReverseQuiet
    /\ ProtoQuiet /\ ReqIDQuiet /\ PendQuiet /\ MultiQuiet
    /\ wall = WallStart
    /\ er = [made |-> FALSE, data |-> FreshData]
    /\ erFile \in { NoRegistryFile,
                    MarshalRegistry([FreshData EXCEPT !.Providers =
                        [k \in {<<"opencode", "p1">>} |->
                            PaneEntry("%2", WallStart)]]) }
    /\ erRet = [op |-> "none", arg |-> 0, ret |-> 0, n |-> 0]

NextMulti ==
    \/ \E i \in Launchers : LauncherNew(i)
    \/ \E i \in Launchers : LauncherUpsert(i)
    \/ \E i \in Launchers : LauncherExit(i)

SpecMulti == InitMulti /\ [][NextMulti]_vars

\* Clients that start daemons, and daemons that shut down.
InitTwin ==
    /\ now = 0
    /\ SendQuiet /\ LockQuiet /\ PoolQuiet /\ LifeQuiet /\ RegQuiet
    /\ ResolveQuiet /\ LaunchQuiet /\ ReaderQuiet /\ PasteQuiet /\ ReverseQuiet
    /\ ProtoQuiet /\ ReqIDQuiet /\ PendQuiet /\ EntQuiet /\ MultiQuiet
    /\ TwinQuiet

NextTwin ==
    \/ \E i \in Daemons : ClientFindsNoDaemon(i)
    \/ \E i \in Daemons : ClientStartsDaemon(i)
    \/ \E i \in Daemons : DaemonStart(i)
    \/ \E i \in Daemons : DaemonShutdown(i)

SpecTwin == InitTwin /\ [][NextTwin]_vars

\* The workers of different sessions send their prompts at the same time.
InitPaste ==
    /\ now = 0
    /\ SendQuiet /\ LockQuiet /\ PoolQuiet /\ LifeQuiet /\ RegQuiet
    /\ ResolveQuiet /\ LaunchQuiet /\ ReaderQuiet /\ ReverseQuiet
    /\ ProtoQuiet /\ ReqIDQuiet /\ PendQuiet /\ EntQuiet /\ MultiQuiet
    /\ TwinQuiet /\ PasteQuiet

NextPaste ==
    \/ \E i \in Pasters : PasteWrite(i)
    \/ \E i \in Pasters : PasteLoad(i)
    \/ \E i \in Pasters : PastePaste(i)
    \/ \E i \in Pasters : PasteEnter(i)

SpecPaste == InitPaste /\ [][NextPaste]_vars

(***************************************************************************)
(* Properties.                                                             *)
(***************************************************************************)
\* The handlers (a.Send calls) running for a session key.
RunningFor(key) == {c \in Conns : conn[c].key = key /\ conn[c].run = "running"}

\* The handlers a worker goroutine has called and that have not returned.
RunningOn(w) ==
    {c \in Conns : conn[c].w = w /\ conn[c].run = "running" /\ ~conn[c].direct}

\* C1 as stated: at every moment at most one handler is executing for a
\* given session key, however many tasks were submitted for it.
C1OneHandlerPerKey == \A key \in SessionKeys : Cardinality(RunningFor(key)) <= 1

\* C1 amended: at every moment at most one of the handlers that a session
\* worker has taken from its channel is executing; the handler of a task
\* submitted to a full channel runs beside it on a goroutine of its own.
C1OneHandlerPerWorker == \A w \in WorkerIds : Cardinality(RunningOn(w)) <= 1

\* A worker runs a handler while another task of the key waits in its
\* channel.
C1Witness ==
    \E w \in WorkerIds :
        /\ wk[w].cur # 0
        /\ RunningOn(w) = {wk[w].cur}
        /\ wk[w].q # <<>>

\* Task d starts in this step.
Starts(d) == conn[d].run # "running" /\ conn'[d].run = "running"

\* C2 as stated: of two tasks submitted under the same session key, the
\* one submitted first is started first, so no task starts while a task
\* that was submitted before it for the same key still waits in the queue.
C2SubmissionOrder ==
    [][\A c, d \in Conns :
          (c < d /\ conn[c].key = conn[d].key /\ conn[c].run = "queued")
              => ~Starts(d)]_vars

\* C2 amended: the tasks that are placed on a worker's channel are started
\* in the order in which they were placed on it: the task a worker starts
\* is the oldest one of its channel.
C2ChannelOrder ==
    [][\A d \in Conns :
          (conn[d].run = "queued" /\ Starts(d)) => wk[conn[d].w].q[1] = d]_vars

\* A worker has started the older of two tasks of its channel and the
\* younger one is still waiting.
C2Witness ==
    \E w \in WorkerIds :
        /\ wk[w].cur # 0
        /\ conn[wk[w].cur].run = "running"
        /\ wk[w].q # <<>>
        /\ wk[w].cur < wk[w].q[1]
        /\ \E d \in Conns : conn[d].key = wk[w].key /\ conn[d].direct

\* The connection carries an authenticated request and handleRequest has
\* submitted its task.
AuthRequest(c) ==
    /\ conn[c].stage \in {"submit", "wait", "closed"}
    /\ conn[c].req.valid
    /\ conn[c].req.token = ServerToken
    /\ conn[c].req.method \in {"request", ".request", "ask"}
    /\ conn[c].key # ""

\* C3: every connection carrying an authenticated request receives exactly
\* one response: never more than one, and none is left without its
\* response when the daemon process has ended.
C3ExactlyOneResponse ==
    \A c \in Conns :
        AuthRequest(c) =>
            /\ conn[c].nresp <= 1
            /\ (~Running => conn[c].nresp = 1)

\* The step is handleConn reading a request with a wrong token on c.
BadTokenStep(c) ==
    /\ conn[c].stage = "accepted"
    /\ conn'[c].stage # "accepted"
    /\ conn'[c].req.valid
    /\ conn'[c].req.token # ServerToken

\* C4: a request with a wrong token is answered with the error "invalid
\* token" and the connection is closed; no method handler runs, no task is
\* submitted to the worker pool and lastActive is left unchanged.
C4InvalidToken ==
    [][\A c \in Conns :
          BadTokenStep(c) =>
              /\ conn'[c].stage = "closed"
              /\ conn'[c].resp = ErrorResp("invalid token")
              /\ conn'[c].nresp = 1
              /\ conn'[c].run = "none" /\ conn'[c].key = ""
              /\ lastActive' = lastActive
              /\ workers' = workers /\ wk' = wk /\ srv' = srv]_vars

\* A request with a wrong token was refused some time after the last
\* authenticated request.
C4Witness ==
    \E c \in Conns :
        /\ conn[c].stage = "closed"
        /\ conn[c].req.valid /\ conn[c].req.token # ServerToken
        /\ conn[c].resp = ErrorResp("invalid token")
        /\ lastActive < now

\* The last line of the text that is not trailing noise is the CCB_DONE
\* line of the request, at position i.
DoneAt(text, reqID, i) ==
    /\ text[i].kind = "done" /\ text[i].s = reqID
    /\ \A j \in (i + 1)..Len(text) : text[j].kind \in {"empty", "space", "tag"}

\* The lines before position i without the noise lines that end them.
BeforeLine(text, i) == StripNoise(SubSeq(text, 1, i - 1))

\* C5: Send returns exit code 0 only if the parser returned a non-empty
\* text whose last non-noise line is the CCB_DONE line of this request,
\* the reply is that text with the done line stripped, and in every
\* result done_seen is true exactly when the exit code is 0.
C5SuccessOnlyOnDone ==
    send.pc = "done" =>
        LET r == send.result
            text == ReadReply(send.logPath, log, send.reqID)
        IN  /\ r.DoneSeen <=> (r.ExitCode = 0)
            /\ r.ExitCode = 0 =>
                  /\ text # <<>>
                  /\ \E i \in 1..Len(text) :
                        /\ DoneAt(text, send.reqID, i)
                        /\ r.Reply = BeforeLine(text, i)

\* Send has succeeded with the reply "42" between anchor and done line.
C5Witness ==
    /\ send.pc = "done"
    /\ send.result.ExitCode = 0
    /\ send.result.Reply = <<TextLine("42")>>
    /\ log = <<AnchorLine(send.reqID), TextLine("42"), DoneLine(send.reqID)>>

\* C6: at most one ProviderLock of one lock file has returned true from
\* TryAcquire or Acquire and has not been released.
C6MutualExclusion == Cardinality(Holders) <= 1

\* C7: while Send has sent the prompt and waits for the reply, the
\* provider lock is held.
C7LockHeldWhileWaiting ==
    (send.pc = "wait" /\ paneInput # <<>>) => Holders # {}

\* The anchor line of the request is in the log of the session.
AnchorPresent ==
    /\ send.logPath # ""
    /\ \E i \in 1..Len(log) : log[i] = AnchorLine(send.reqID)

\* C8: when the deadline passes without the done marker, Send returns
\* exit code 2 with the timeout error, and anchor_seen is true if the
\* anchor line of the request is in the log at that moment.
C8TimeoutAnchorSeen ==
    (send.pc = "done" /\ send.result.Error = ErrTimeout(send.reqID)) =>
        /\ send.result.ExitCode = 2
        /\ AnchorPresent => send.result.AnchorSeen

\* The done marker of the request is observed in the log now.
DoneObserved ==
    LET text == ReadReply(send.logPath, log, send.reqID) IN
    \E i \in 1..Len(text) : DoneAt(text, send.reqID, i)

\* A turn of the wait loop at which the liveness probe is due and the
\* backend reports the pane dead, before the deadline and with no done
\* marker observed.
DeadAtProbe ==
    /\ send.pc = "wait" /\ send' # send
    /\ now < send.deadline
    /\ ~DoneObserved
    /\ now - send.lastForceRead > 2 * Second
    /\ send.paneID \notin paneAlive

\* C9: if the pane was alive when the prompt was sent and the backend
\* reports it dead at a later liveness probe while the done marker has not
\* been observed, Send stops waiting and returns exit code 2 with the
\* pane-not-alive error, without waiting for the deadline.
C9PaneDeath ==
    [][DeadAtProbe =>
          /\ send'.pc = "done"
          /\ send'.result.ExitCode = 2
          /\ send'.result.Error = ErrPaneDead(send.paneID)
          /\ now' = now]_vars

\* Send has returned the pane-not-alive error before its deadline, for a
\* prompt that was delivered to the pane.
C9Witness ==
    /\ send.pc = "done"
    /\ probedDead
    /\ send.result.ExitCode = 2
    /\ send.result.Error = ErrPaneDead(send.paneID)
    /\ paneInput # <<>>
    /\ now < send.deadline

\* No session can be loaded for the work directory: there is no session
\* file, or the one that is found holds no pane identifier.
SessionMissing ==
    \/ sessFiles.cfg = Absent /\ sessFiles.legacy = Absent
    \/ sessFiles.cfg \in {"", "\n"}
    \/ sessFiles.cfg = Absent /\ sessFiles.legacy \in {"", "\n"}

\* C10: when no session can be loaded, Send returns exit code 1 with the
\* error "codex session not found", sends nothing to any pane and never
\* enters the poll loop.
C10SessionNotFound ==
    (SessionMissing /\ send.pc # "idle") =>
        /\ send.pc = "done"
        /\ send.result.ExitCode = 1
        /\ send.result.Error = <<"codex session not found">>
        /\ paneInput = <<>>

\* Send has returned for a work directory whose session file is empty.
C10Witness ==
    /\ send.pc = "done"
    /\ sessFiles.cfg = "\n"
    /\ send.result.ExitCode = 1
    /\ paneInput = <<>>

\* C11: a request without timeout_s (or with 0) has the default deadline of
\* 120 seconds: Send does not end with the timeout error before 120
\* seconds have passed since the prompt was sent.
C11DefaultDeadline ==
    (/\ send.pc = "done"
     /\ req.TimeoutS = 0
     /\ send.result.Error = ErrTimeout(send.reqID)) =>
        now - send.startTime >= DefaultTimeout

\* The idle monitor takes a tick of its ticker in this step.
IdleTickTaken == boot'.idleNext # boot.idleNext

\* handleConn reads a request with the server's token in this step.
AuthenticatedNow ==
    \E c \in Conns : /\ conn[c].stage = "accepted"
                     /\ conn'[c].stage # "accepted"
                     /\ conn'[c].req.valid
                     /\ conn'[c].req.token = ServerToken

\* C12: lastActive is the time of the last authenticated request; at a
\* tick of the idle monitor the daemon is shut down when more than the
\* idle timeout has passed since then, and left alone otherwise; the idle
\* monitor starts a shutdown at no other moment.
C12IdleShutdown ==
    [][/\ lastActive' = IF AuthenticatedNow THEN now ELSE lastActive
       /\ IdleTickTaken =>
             IF now - lastActive > daemonCfg.IdleTimeout
             THEN srv'.shutdownClosed
             ELSE srv' = srv
       /\ (boot'.idle = "shutdown" /\ boot.idle # "shutdown") =>
             /\ IdleTickTaken
             /\ now - lastActive > daemonCfg.IdleTimeout
             /\ now = boot.idleNext]_vars

\* The idle monitor has shut the daemon down after an authenticated
\* request had moved lastActive.
C12Witness ==
    /\ boot.idle = "shutdown"
    /\ srv.shutdownClosed
    /\ lastActive > 0
    /\ now - lastActive > daemonCfg.IdleTimeout

\* C13: with a parent PID given and the parent process gone, a check of
\* the parent monitor shuts the daemon down.
C13ParentGone ==
    [][(/\ daemonCfg.ParentPID > 0
        /\ ~parentAlive
        /\ boot'.parentNext # boot.parentNext) => srv'.shutdownClosed]_vars

\* C14: a shutdown removes the state file before it closes the listener:
\* at no moment does the state file exist while the listener has been
\* closed by a shutdown.
C14StateFileRemovedFirst ==
    ~(srv.shutdownClosed /\ ~srv.listener /\ stateDoc # Absent)

\* C15: the state file is written atomically once the listener is bound: a
\* client that reads it finds no file or the complete document, and the
\* file exists only with a bound listener behind it or after a shutdown.
C15AtomicStateFile ==
    /\ lastRead \in {"none", "daemon not running (no state file)", "state"}
    /\ stateDoc # Absent => boot.pc # "new"

C17RegistryFileWhole ==
    regFs["path"].exists => regFs["path"].whole

\* The process was killed while path.tmp was written in part, with a
\* registry file in place.
C17Witness ==
    /\ regProc = "crashed"
    /\ regFs["tmp"].exists /\ ~regFs["tmp"].whole
    /\ regFs["path"].exists

\* The stages before stage i all failed on the input of the call.
EarlierFailed(i) == \A j \in 1..(i - 1) : Stage(j, rsIn) = {}

\* C18: Resolve returns the result of the lowest-numbered stage that
\* succeeds, in the order env, registry_project, registry_unfiltered,
\* session_file, registry_pane, fallback.
C18LowestStageWins ==
    rsOut # NotCalled =>
        \E i \in 1..6 :
            /\ EarlierFailed(i)
            /\ rsOut \in Stage(i, rsIn)
            /\ i < 6 =>
                 rsOut.Source = <<"env", "registry_project",
                                  "registry_unfiltered", "session_file",
                                  "registry_pane">>[i]

\* Resolve answered from the session file although the registry knows the
\* current pane: stage 4 came before stage 5.
C18Witness ==
    /\ rsOut.Source = "session_file"
    /\ Stage(5, rsIn) # {}

\* C19: after registerSession has written the session file, the adapter
\* reads the registered pane back: LoadCodexSession, the Send that waits
\* for a reply and a successful EnsurePane all have the pane id that was
\* registered.
C19SamePaneReadBack ==
    launched # "" =>
        /\ LoadCodexSession(sessFiles, req.WorkDir, logPath).PaneID = launched
        /\ (send.pc = "wait" /\ paneInput # <<>>) =>
               paneInput[Len(paneInput)].pane = launched
        /\ ensured[1] = "pane" => ensured[2] = launched

\* The part of the file that ReadNew has read.
ReadSoFar == SubSeq(tailed, 1, rd.offset)

\* The newline-terminated lines of a text, without their newlines.
CompleteLines(text) ==
    LET ends == {i \in 1..Len(text) : text[i] = "\n"}
        EndOf(n) == CHOOSE i \in ends :
                        Cardinality({j \in ends : j < i}) = n - 1
        StartOf(n) == IF n = 1 THEN 1 ELSE EndOf(n - 1) + 1
    IN [n \in 1..Cardinality(ends) |-> SubSeq(text, StartOf(n), EndOf(n) - 1)]

\* What follows the last newline of a text.
PartialLine(text) ==
    LET ends == {i \in 1..Len(text) : text[i] = "\n"}
        from == IF ends = {} THEN 1
                ELSE (CHOOSE i \in ends : \A j \in ends : j <= i) + 1
    IN SubSeq(text, from, Len(text))

\* A line without the carriage returns at its end.
WithoutCR(line) ==
    LET keep == {i \in 0..Len(line) :
                    \A j \in (i + 1)..Len(line) : line[j] = "\r"}
    IN SubSeq(line, 1, CHOOSE i \in keep : \A j \in keep : i <= j)

\* C20 as stated: the lines returned by all ReadNew calls are the
\* newline-terminated lines of what was read of the file, in order and
\* each once, and the carry is the partial line at its end.
C20LinesOnce ==
    /\ rd.returned = CompleteLines(ReadSoFar)
    /\ rd.carry = PartialLine(ReadSoFar)

\* C20, amended: the lines returned by all ReadNew calls are the
\* newline-terminated lines of what was read of the file with the carriage
\* returns at their ends removed, in order and each once, and the carry is
\* the partial line at its end.
C20LinesOnceTrimmed ==
    /\ rd.returned = [n \in 1..Len(CompleteLines(ReadSoFar)) |->
                         WithoutCR(CompleteLines(ReadSoFar)[n])]
    /\ rd.carry = PartialLine(ReadSoFar)

\* A call has completed a line carried over from an earlier call, and the
\* reader holds a new partial line.
C20Witness ==
    /\ rd.joined
    /\ rd.carry # <<>>
    /\ rd.offset = Len(tailed)

\* The lines of a file: the parts between newlines without their trailing
\* carriage returns, the empty part after a final newline not counted.
FileLines(file) ==
    LET parts == SplitNewline(file)
        lines == [i \in 1..Len(parts) |-> TrimRightCR(parts[i])]
    IN IF parts[Len(parts)] = <<>> THEN SubSeq(lines, 1, Len(lines) - 1)
       ELSE lines

LastOf(lines, n) ==
    IF Len(lines) > n THEN SubSeq(lines, Len(lines) - n + 1, Len(lines))
    ELSE lines

\* C21: ReadLastLines(n) on a file of k lines returns exactly min(n, k)
\* lines, the last min(n, k) lines of the file in forward order, for every
\* chunk size >= 1 and for files with or without a final newline, where
\* only the empty part after a final newline is not counted as a line.
C21LastLines ==
    (rv.called /\ rv.ChunkSize >= 1) =>
        rv.out = LastOf(FileLines(rv.file), rv.n)

\* x is [A-Z][A-Z0-9_]*_DONE and not CCB_DONE itself.
TagShape(x) ==
    /\ Len(x) >= 6 /\ x[1] \in Upper
    /\ AllIn(x, Upper \cup Digit \cup {"_"})
    /\ SubSeq(x, Len(x) - 4, Len(x)) = <<"_", "D", "O", "N", "E">>
    /\ x # <<"C", "C", "B", "_", "D", "O", "N", "E">>

BlankLines(x) == AllIn(x, {" ", "\t", "\n", "\r"})

\* C22: for any text t, request id r and line x that matches
\* [A-Z][A-Z0-9_]*_DONE and is not a CCB_DONE line,
\* IsDoneText(t + "\n" + x, r) = IsDoneText(t, r); appending blank lines
\* does not change the result either.
C22NoiseIgnored ==
    (pt.call = "IsDoneText" /\ (TagShape(pt.extra) \/ BlankLines(pt.extra))) =>
        pt.done = Str_IsDoneText(pt.text, pt.reqID)

\* A tag was appended to a reply that is done.
C22Witness ==
    /\ pt.call = "IsDoneText" /\ TagShape(pt.extra)
    /\ pt.done /\ pt.text # <<>>

\* C23: for any message m and request id r,
\* StripDoneText(WrapCodexPrompt(m, r) + "\n" + "CCB_DONE: " + r, r) is
\* WrapCodexPrompt(m, r) right-trimmed: the appended marker line goes, the
\* message body and the wrapping instructions stay.
C23StripInvertsMarker ==
    pt.call = "StripDoneText" =>
        pt.stripped = TrimRight(Str_WrapCodexPrompt(pt.text, pt.reqID),
                                {"\n", "\r", "\t", " "})

\* A text without the carriage returns that end its lines.
DropLineEndCR(text) ==
    LET parts == SplitNewline(text)
    IN Join([i \in 1..Len(parts) |-> TrimRightCR(parts[i])])

\* C23, amended: the result is WrapCodexPrompt(m, r) right-trimmed, with
\* the carriage returns at the end of its lines removed; for a message
\* whose lines do not end in a carriage return that is WrapCodexPrompt(m, r)
\* right-trimmed itself.
C23StripInvertsMarkerCR ==
    pt.call = "StripDoneText" =>
        LET wrapped == Str_WrapCodexPrompt(pt.text, pt.reqID)
            trimmed == TrimRight(wrapped, {"\n", "\r", "\t", " "})
        IN /\ pt.stripped = TrimRight(DropLineEndCR(wrapped),
                                      {"\n", "\r", "\t", " "})
           /\ DropLineEndCR(pt.text) = pt.text => pt.stripped = trimmed

\* The marker was stripped from a wrapped message that itself ends in a
\* done line and a tag.
C23Witness ==
    /\ pt.call = "StripDoneText" /\ pt.reqID = RealID
    /\ pt.text = Str_DonePrefix \o <<" ">> \o RealID \o <<"\n">>
                     \o <<"C", "O", "D", "E", "X", "_", "D", "O", "N", "E">>
    /\ Len(pt.stripped) > Len(WrapInstructions)

\* C24: two calls of MakeReqID made in the same process never return the
\* same request id.
C24UniqueInProcess ==
    \A i, j \in 1..Len(issued) :
        (i # j /\ issued[i].pid = issued[j].pid) => issued[i].id # issued[j].id

\* The daemon answered the ask of an authenticated client on connection c.
AskAnswered(c) ==
    /\ conn[c].stage = "closed" /\ conn[c].nresp = 1
    /\ conn[c].req.valid /\ conn[c].req.token = ServerToken
    /\ conn[c].req.method = "request"

\* C25: every result a client obtains for an ask carries an exit_code in
\* {0, 1, 2}, with 0 only when a reply was captured: a request naming a
\* missing or unregistered provider yields exit_code 1 at the client, and a
\* timeout or pane death yields 2.
C25ExitCodes ==
    \A c \in Conns :
        AskAnswered(c) =>
            LET result == AskDecode(conn[c].resp) IN
            /\ result.ExitCode \in {0, 1, 2}
            /\ result.ExitCode = 0 => conn[c].resp = ResultResp(0, "")
            /\ conn[c].req.provider \notin Providers => result.ExitCode = 1
            /\ conn[c].resp.error \in {"timeout", "timeout waiting for reply"}
                   => result.ExitCode = 2

\* The request read on connection c is an authenticated ask without a
\* provider, a message or a work_dir.
LacksField(c) ==
    /\ conn[c].req.valid /\ conn[c].req.token = ServerToken
    /\ conn[c].req.method = "request"
    /\ \/ conn[c].req.provider = ""
       \/ conn[c].req.message = ""
       \/ conn[c].req.workDir = ""

\* C26: a request that lacks provider, message or work_dir is rejected with
\* an error response, and nothing is submitted to the worker pool or sent
\* to a pane for it.
C26RequiredFields ==
    \A c \in Conns :
        LacksField(c) =>
            /\ conn[c].stage = "closed"
            /\ conn[c].resp.status = "error"
            /\ conn[c].key = "" /\ conn[c].w = 0 /\ conn[c].run = "none"

\* The reply of the most recent Send that returned exit code 0, the empty
\* string when there is none.
RECURSIVE LastSuccess(_)
LastSuccess(results) ==
    IF results = <<>> THEN <<>>
    ELSE IF results[Len(results)].ExitCode = 0 THEN results[Len(results)].Reply
    ELSE LastSuccess(SubSeq(results, 1, Len(results) - 1))

\* C27: Pend returns the reply of the most recent successful Send of the
\* adapter, and the empty string when no Send has succeeded; a Send that
\* ends with exit code 1 or 2 leaves the stored last reply unchanged.  A
\* Send that has its reply and is about to return counts as successful.
C27PendLastSuccess ==
    [][/\ pend'.calls # pend.calls =>
              pend'.out \in {LastSuccess(sendLog)} \cup
                                {senders[w].reply : w \in Storing}
       /\ (Len(sendLog') > Len(sendLog) /\ sendLog'[Len(sendLog')].ExitCode # 0)
              => lastReply' = lastReply]_vars

\* C28: for each (provider, projectID) entry, updated_at never decreases
\* across successive writes made through the same PaneRegistry (Set,
\* Upsert, legacy migration).
C28UpdatedAtMonotone ==
    [][(er.made /\ erRet'.op \in {"Set", "Upsert"}) =>
          \A k \in DOMAIN er.data.Providers \cap DOMAIN er'.data.Providers :
              er'.data.Providers[k].UpdatedAt >= er.data.Providers[k].UpdatedAt]_vars

\* A call of PruneStalePanes(ttl) has just returned.
PruneStep == erRet'.op = "PruneStalePanes" /\ erRet'.n # erRet.n

\* now minus ttl, ttl 0 meaning the default.
Cutoff(ttl) == wall - (IF ttl = 0 THEN registryTTL ELSE ttl)

LoadsFlat ==
    /\ erFile.kind = "flat"
    /\ erRet'.op = "NewPaneRegistry" /\ erRet'.n = erRet.n + 1

\* C30: loading a file in the legacy flat schema promotes every flat key
\* provider:projectID, so that Get(provider, projectID) returns the legacy
\* pane id for every such key of the file, and the file is rewritten as
\* version 2 with no legacy bag.
C30LegacyMigrated ==
    [][LoadsFlat =>
          /\ \A k \in DOMAIN erFile.flat :
                Len(SplitN2(k)) = 2 =>
                   RegistryGet(er'.data, SplitN2(k)[1], SplitN2(k)[2])
                      = erFile.flat[k]
          /\ erFile'.kind = "nested"
          /\ erFile'.Version = registryVersion
          /\ erFile'.Legacy = EmptyMap]_vars

\* A registry that was written by Set is read back by the next process
\* that opens the file.
C30SavedIsLoaded ==
    [][(erRet.op = "Set" /\ erRet'.op = "NewPaneRegistry")
          => er'.data.Providers = er.data.Providers]_vars

\* The Submit call of c returns in this step.
SubmitReturns(c) == conn[c].stage = "submit" /\ conn'[c].stage = "wait"

\* C31: Submit never blocks its caller: a Submit that has left its
\* critical section can always take its next step, and when it returns it
\* has started the handler of its task on a goroutine of its own if the
\* queue of the session's worker was full, and has otherwise appended the
\* task to the queue of the one worker the pool holds for the session key.
C31SubmitNeverBlocks ==
    /\ [](\A c \in Conns :
             (Running /\ conn[c].stage = "submit") => ENABLED SubmitSend(c))
    /\ [][\A c \in Conns :
             SubmitReturns(c) =>
                LET w == conn[c].w IN
                IF Len(wk[w].q) >= TaskChCap
                THEN /\ conn'[c].run = "running" /\ conn'[c].direct
                     /\ wk'[w].q = wk[w].q
                ELSE /\ conn'[c].run = "queued"
                     /\ wk'[w].q = Append(wk[w].q, c)
                     /\ wk[w].key = conn[c].key
                     /\ workers[conn[c].key] = w]_vars

\* A Submit found the queue of its session full and its handler runs
\* beside the worker, and another Submit of the key was queued.
C31Witness ==
    \E c, d \in Conns :
        /\ conn[c].stage = "wait" /\ conn[c].direct /\ conn[c].run = "running"
        /\ Len(wk[conn[c].w].q) = TaskChCap
        /\ conn[d].key = conn[c].key /\ conn[d].run = "queued"
        /\ d \in {wk[conn[c].w].q[i] : i \in 1..Len(wk[conn[c].w].q)}

\* handleRequest has answered the request of c with its timeout result.
TimedOut(c) ==
    conn[c].stage = "closed" /\ conn[c].resp = ResultResp(2, "timeout")

\* C32: once the daemon has answered a request with a timeout, the handler
\* of its task is not started afterwards, so that its prompt is not sent
\* to the pane: a task that still waits in its session queue when its
\* deadline passes is discarded.
C32NoSendAfterTimeout ==
    [][\A c \in Conns : TimedOut(c) => ~Starts(c)]_vars

\* C33: a log that holds the echoed wrapped prompt and no provider output
\* after it is not taken for a completed reply.
C33EchoIsNotDone ==
    (pt.call = "WaitForReply" /\ pt.extra = <<>>) => ~pt.done

\* C34: Server.Shutdown takes effect at most once: a later trigger (the
\* shutdown RPC, a monitor, a signal) is a no-op, and none panics on the
\* shutdown channel that an earlier one has closed.
C34ShutdownOnce == srv.why # "close of closed channel"

\* C35: no task is ever sent on a worker's task channel after
\* WorkerPool.Shutdown has closed that channel: a Submit that races with
\* or follows Shutdown does not panic.
C35NoSendOnClosed == srv.why # "send on closed channel"

\* The other half of C35: when Shutdown returns the map of workers is
\* empty, so ActiveWorkers() is 0.
C35NoWorkersAfterShutdown ==
    [][(\E w \in WorkerIds : ~wk[w].closed /\ wk'[w].closed)
          => \A k \in SessionKeys : workers'[k] = 0]_vars

\* The request of c is waiting in a session queue or its handler runs.
InProgress(c) == conn[c].run \in {"queued", "running"}

\* C36: the idle monitor does not shut the daemon down while a request is
\* still being processed by a worker or waiting in a session queue.
C36NotIdleWhileBusy ==
    [][(boot.idle = "on" /\ boot'.idle = "shutdown")
          => \A c \in Conns : ~InProgress(c)]_vars

\* C37: with several PaneRegistry instances backed by the same file, an
\* Upsert through one instance never removes from the file an entry that
\* another instance wrote for a different (provider, projectID) key.
C37OtherEntriesKept ==
    [][\A i \in Launchers :
          (prs[i].pc = "made" /\ prs'[i].pc = "done") =>
             \A k \in DOMAIN erFile.Providers \ {LauncherKey(i)} :
                /\ k \in DOMAIN erFile'.Providers
                /\ erFile'.Providers[k] = erFile.Providers[k]]_vars

\* C38: a daemon's shutdown removes the state file only if the file still
\* describes that daemon: the shutdown of one of several daemons started
\* against the same state file does not delete the state of another that
\* is still running.
C38OwnStateOnly ==
    [][\A i \in Daemons :
          (dm[i] = "running" /\ dm'[i] = "exited" /\ sf # i) => sf' = sf]_vars

\* C39: the text pasted into a pane by a multi-line SendKeys call is the
\* text passed to that call, also when SendKeys calls for different panes
\* run at the same time in one daemon.
C39PastedIsPassed ==
    \A i \in Pasters : \A n \in 1..Len(pasted[i]) : pasted[i][n] = i

\* C40: in every ProviderResult returned by Send, done_seen = true implies
\* anchor_seen = true.
C40DoneImpliesAnchor ==
    send.pc = "done" => (send.result.DoneSeen => send.result.AnchorSeen)

====
